---- MODULE Spec2Model ----
(***************************************************************************)
(* Verification model of the relativity simulator: the symbolic/numeric    *)
(* engine (engine/cas.ts), the Lorentz engine (the physics functions), the *)
(* particle store (store/useSimulatorStore.ts) and the frame/rendering     *)
(* logic of the two spacetime views.                                       *)
(***************************************************************************)
EXTENDS Integers, Sequences, FiniteSets, TLC

VARIABLES
    particles,               \* store: ParticleState[]
    activeReferenceFrameId,  \* store: particle id or "Lab"
    animationTime,           \* store: lab coordinate time of the playhead
    tauRange,                \* store: half-width of the plotted proper-time range
    timeMin,                 \* store: lower end of the time slider
    timeMax,                 \* store: upper end of the time slider
    lastAct,                 \* history: the last solver-calling store action, whether it threw
    ev,                      \* one call into the symbolic and numeric engine
    ft,                      \* one call of findTauForLabTime, iteration by iteration
    ph                       \* one call into the Lorentz engine

vars ==
    <<particles, activeReferenceFrameId, animationTime, tauRange, timeMin, timeMax, lastAct, ev, ft, ph>>

(***************************************************************************)
(* NUMBERS.  A JS number (IEEE double) is modelled as a fixed-point value: *)
(* an integer count of 1/Scale units, finite up to MaxFin units, with the  *)
(* three non-finite doubles +Infinity, -Infinity and NaN as values outside *)
(* that range.  Overflow saturates to +/-Infinity, Infinity - Infinity,    *)
(* 0 * Infinity and 0/0 are NaN, x/0 is +/-Infinity, as in IEEE 754.       *)
(* Finite results are truncated to the grid (a double rounds to nearest).  *)
(* Signed zero is not modelled.  MaxFin/Scale plays the role of            *)
(* Number.MAX_VALUE: an input that overflows in the model stands for one   *)
(* that overflows a double.                                                *)
(***************************************************************************)
Root == 200
Scale == Root * Root
MaxFin == 1000000000
PInf == MaxFin + 1
NInf == 0 - PInf
NaN == MaxFin + 2

Num(n) == n * Scale
One == Num(1)

IsNaN(x) == x = NaN
IsFinite(x) == x # NaN /\ x # PInf /\ x # NInf
IsInf(x) == x = PInf \/ x = NInf

Sat(x) == IF x > MaxFin THEN PInf ELSE IF x < 0 - MaxFin THEN NInf ELSE x

FNeg(x) == IF x = NaN THEN NaN ELSE 0 - x

FAbs(x) == IF x = NaN THEN NaN ELSE IF x < 0 THEN 0 - x ELSE x

FAdd(a, b) ==
    IF a = NaN \/ b = NaN THEN NaN
    ELSE IF a = PInf THEN (IF b = NInf THEN NaN ELSE PInf)
    ELSE IF a = NInf THEN (IF b = PInf THEN NaN ELSE NInf)
    ELSE IF IsInf(b) THEN b
    ELSE Sat(a + b)

FSub(a, b) == FAdd(a, FNeg(b))

\* product of two finite non-negative values, computed in pieces that fit 32 bits
MulU(a, b) ==
    LET ah == a \div Scale
        al == a % Scale
        bh == b \div Scale
        bl == b % Scale
    IN  IF ah > 0 /\ b > MaxFin \div ah THEN PInf
        ELSE Sat(ah * b + al * bh + (al * bl) \div Scale)

FMul(a, b) ==
    IF a = NaN \/ b = NaN THEN NaN
    ELSE IF IsInf(a) \/ IsInf(b)
         THEN (IF a = 0 \/ b = 0 THEN NaN
               ELSE IF (a > 0) = (b > 0) THEN PInf ELSE NInf)
    ELSE LET m == MulU(FAbs(a), FAbs(b))
         IN  IF (a >= 0) = (b >= 0) THEN m ELSE FNeg(m)

\* quotient of finite a >= 0 by finite b > 0, two base-Root digits after the point
DivU(a, b) ==
    LET k  == IF b > 10000000 THEN Root ELSE 1
        a1 == a \div k
        b1 == b \div k
        q0 == a1 \div b1
        r0 == a1 % b1
        q1 == (r0 * Root) \div b1
        r1 == (r0 * Root) % b1
        q2 == (r1 * Root) \div b1
    IN  IF q0 > MaxFin \div Scale THEN PInf ELSE Sat(q0 * Scale + q1 * Root + q2)

FDiv(a, b) ==
    IF a = NaN \/ b = NaN THEN NaN
    ELSE IF IsInf(a)
         THEN (IF IsInf(b) THEN NaN
               ELSE IF (a > 0) = (b >= 0) THEN PInf ELSE NInf)
    ELSE IF IsInf(b) THEN 0
    ELSE IF b = 0
         THEN (IF a = 0 THEN NaN ELSE IF a > 0 THEN PInf ELSE NInf)
    ELSE LET m == DivU(FAbs(a), FAbs(b))
         IN  IF (a >= 0) = (b > 0) THEN m ELSE FNeg(m)

FMulInt(x, k) == FMul(x, Num(k))
FDivInt(x, k) == FDiv(x, Num(k))

\* x / 2 where x is a sum of two grid values: exact, or rounded to the even neighbour
Half(x) ==
    IF ~IsFinite(x) THEN x
    ELSE IF x % 2 = 0 THEN x \div 2
    ELSE LET d == (x - 1) \div 2 IN IF d % 2 = 0 THEN d ELSE d + 1

RECURSIVE SqrtSearch(_, _, _)
SqrtSearch(n, lo, hi) ==
    IF lo >= hi THEN lo
    ELSE LET m == (lo + hi + 1) \div 2
         IN  IF m * m <= n THEN SqrtSearch(n, m, hi) ELSE SqrtSearch(n, lo, m - 1)

ISqrt(n) == SqrtSearch(n, 0, 46340)

\* Math.sqrt
FSqrt(a) ==
    IF a = NaN \/ a < 0 THEN NaN
    ELSE IF a = PInf THEN PInf
    ELSE IF a <= 50000 THEN ISqrt(a * Scale)
    ELSE ISqrt(a) * Root

\* the relational operators of JS: every comparison with NaN is false
FLt(a, b) == a # NaN /\ b # NaN /\ a < b
FGt(a, b) == a # NaN /\ b # NaN /\ a > b
FGe(a, b) == a # NaN /\ b # NaN /\ a >= b
FLe(a, b) == a # NaN /\ b # NaN /\ a <= b

\* a decimal literal n/d of the source on the grid: largest grid value <= it,
\* and smallest grid value >= it
DecFloor(n, d) == (n * Scale) \div d
DecCeil(n, d) == (n * Scale + d - 1) \div d

NumericVector4 == [1..4 -> Int]
ZeroVec == <<0, 0, 0, 0>>

(***************************************************************************)
(* EXPRESSIONS.  An expression string over tau is represented by what the  *)
(* algebra engine makes of it:                                             *)
(*   k = "poly"  c = <<c0, c1, ...>> : c0 + c1 tau + c2 tau^2/2! + ...     *)
(*   k = "rpow"  the polynomial c plus the n-th derivative of 1/tau        *)
(*   k = "sqrt"  the polynomial c plus the n-th derivative (n < 0: the     *)
(*               -n-th antiderivative vanishing at 0) of sqrt(tau)         *)
(*   k = "exp"   the polynomial c plus exp(tau)                            *)
(*   k = "bad"   a string the engine cannot parse                          *)
(*   k = "blank" the empty or whitespace-only string                       *)
(* A coefficient list with trailing zeros is a non-canonical spelling      *)
(* (e.g. "tau + 0*tau^2"); the engine's text() output is canonical.        *)
(* "throw" is not an expression: it marks a raised exception.              *)
(***************************************************************************)
Poly(c) == [k |-> "poly", c |-> c, n |-> 0]
RPow(c, n) == [k |-> "rpow", c |-> c, n |-> n]
SqrtE(c, n) == [k |-> "sqrt", c |-> c, n |-> n]
ExpE(c) == [k |-> "exp", c |-> c, n |-> 0]
Bad == [k |-> "bad", c |-> <<0>>, n |-> 0]
Blank == [k |-> "blank", c |-> <<0>>, n |-> 0]
Throw == [k |-> "throw", c |-> <<0>>, n |-> 0]
Zero == Poly(<<0>>)

RECURSIVE Trim(_)
Trim(c) ==
    IF Len(c) <= 1 THEN (IF Len(c) = 0 THEN <<0>> ELSE c)
    ELSE IF c[Len(c)] = 0 THEN Trim(SubSeq(c, 1, Len(c) - 1)) ELSE c

\* sum over i of c[i] * tau^(i-1)/(i-1)!, pw being tau^(i-1)/(i-1)!
RECURSIVE PolySum(_, _, _, _)
PolySum(c, i, pw, tau) ==
    IF i > Len(c) THEN 0
    ELSE FAdd(IF c[i] = 0 THEN 0 ELSE FMulInt(pw, c[i]),
              PolySum(c, i + 1, FDivInt(FMul(pw, tau), i), tau))

PolyEval(c, tau) == PolySum(c, 1, One, tau)

\* n-th derivative of 1/tau at tau # 0: (-1)^n n! / tau^(n+1)
RECURSIVE RPowVal(_, _)
RPowVal(n, tau) ==
    IF n = 0 THEN FDiv(One, tau)
    ELSE FMulInt(FDiv(RPowVal(n - 1, tau), tau), 0 - n)

\* n-th derivative (n > 0) or -n-th antiderivative (n < 0) of sqrt(tau), tau > 0
RECURSIVE SqrtVal(_, _)
SqrtVal(n, tau) ==
    IF n = 0 THEN FSqrt(tau)
    ELSE IF n > 0 THEN FDivInt(FMulInt(FDiv(SqrtVal(n - 1, tau), tau), 3 - 2 * n), 2)
    ELSE FDivInt(FMulInt(FMul(SqrtVal(n + 1, tau), tau), 2), 1 - 2 * n)

\* exp(x) for 0 <= x < 1, by its series to the twelfth power
ExpSeries(x) == PolySum(<<1, 1, 1, 1, 1, 1, 1, 1, 1, 1, 1, 1, 1>>, 1, One, x)

\* exp(q) for a whole number q
RECURSIVE ExpPow(_)
ExpPow(q) ==
    IF q = 0 THEN One
    ELSE IF q > 0 THEN FMul(ExpPow(q - 1), ExpSeries(One))
    ELSE FDiv(ExpPow(q + 1), ExpSeries(One))

\* exp(tau): overflows to Infinity above the finite range, underflows to 0
ExpVal(tau) ==
    LET q == tau \div Scale
        r == tau % Scale
    IN  IF q > 12 THEN PInf
        ELSE IF q < 0 - 12 THEN 0
        ELSE FMul(ExpPow(q), ExpSeries(r))

\* the result of an evaluation that raised an exception
Thrown == MaxFin + 3

(***************************************************************************)
(* One component of evaluateVectorAtTau:                                   *)
(*   Number(mathEval(nerdamer(substituteConstants(e), {tau}).text()))      *)
(* The engine raises on an unparsable string and on a division by zero;    *)
(* a complex value (sqrt of a negative number) converts to NaN; a value    *)
(* beyond the finite range converts to +/-Infinity.                        *)
(***************************************************************************)
EvalComponent(e, tau) ==
    CASE e.k = "poly" -> PolyEval(e.c, tau)
      [] e.k = "rpow" -> IF tau = 0 THEN Thrown
                         ELSE FAdd(PolyEval(e.c, tau), RPowVal(e.n, tau))
      [] e.k = "sqrt" -> IF tau < 0 THEN NaN
                         ELSE IF tau = 0 THEN (IF e.n > 0 THEN Thrown ELSE PolyEval(e.c, tau))
                         ELSE FAdd(PolyEval(e.c, tau), SqrtVal(e.n, tau))
      [] e.k = "exp" -> FAdd(PolyEval(e.c, tau), ExpVal(tau))
      [] OTHER -> Thrown

evaluateVectorAtTau_partial(V, tau) ==
    LET r == [i \in 1..4 |-> EvalComponent(V[i], tau)]
    IN  [i \in 1..4 |-> IF r[i] = Thrown \/ IsNaN(r[i]) THEN 0 ELSE r[i]]

\* evaluateVectorAtTau without the test res.some(Number.isNaN)
evaluateVectorAtTau_raw(V, tau) ==
    LET r == [i \in 1..4 |-> EvalComponent(V[i], tau)]
    IN  IF \E i \in 1..4 : r[i] = Thrown THEN ZeroVec ELSE r

evaluateVectorAtTau(V, tau) ==
    LET r == [i \in 1..4 |-> EvalComponent(V[i], tau)]
    IN  IF \E i \in 1..4 : r[i] = Thrown THEN ZeroVec
        ELSE IF \E i \in 1..4 : IsNaN(r[i]) THEN ZeroVec
        ELSE r

(***************************************************************************)
(* SYMBOLIC CALCULUS (engine/cas.ts).  An operator returns Throw where the *)
(* source raises.                                                          *)
(***************************************************************************)
\* !expr || expr.trim() === '' || expr.trim() === '0'
IsDegenerate(e) == e.k = "blank" \/ e = Zero

\* nerdamer(`diff(${expr}, tau)`).text()
EngineDiff(e) ==
    CASE e.k = "poly" -> Poly(Trim(Tail(e.c)))
      [] e.k = "rpow" -> RPow(Trim(Tail(e.c)), e.n + 1)
      [] e.k = "sqrt" -> SqrtE(Trim(Tail(e.c)), e.n + 1)
      [] e.k = "exp" -> ExpE(Trim(Tail(e.c)))
      [] OTHER -> Throw

deriveSymbolic(e) == IF IsDegenerate(e) THEN Zero ELSE EngineDiff(e)

\* nerdamer(`integrate(${expr}, tau)`).text(): the engine's antiderivative,
\* whose polynomial part has constant term 0
EngineIntegrate(e) ==
    CASE e.k = "poly" -> Poly(<<0>> \o e.c)
      [] e.k = "rpow" -> RPow(<<0>> \o e.c, e.n - 1)
      [] e.k = "sqrt" -> SqrtE(<<0>> \o e.c, e.n - 1)
      [] e.k = "exp" -> ExpE(<<0>> \o e.c)
      [] OTHER -> Throw

\* nerdamer(integrated, {tau: '0'}).text(): the value at 0 as an integer, or
\* Throw: 1/tau and its derivatives divide by zero, log(tau) (the antiderivative
\* of 1/tau, n = -1) is undefined at 0, and so are the derivatives of sqrt(tau)
EngineAtZero(e) ==
    CASE e.k = "poly" -> Poly(<<e.c[1]>>)
      [] e.k = "sqrt" /\ e.n <= 0 -> Poly(<<e.c[1]>>)
      [] e.k = "exp" -> Poly(<<e.c[1] + 1>>)
      [] OTHER -> Throw

\* the integrated expression plus the constant, its value at 0 left in place
EngineAdjust_unanchored(e, atZero, constant) ==
    [e EXCEPT !.c = Trim(<<e.c[1] + constant>> \o Tail(e.c))]

\* nerdamer(`${integrated} - (${evaluatedAtZero}) + (${constant})`).text()
EngineAdjust(e, atZero, constant) ==
    [e EXCEPT !.c = Trim(<<e.c[1] - atZero.c[1] + constant>> \o Tail(e.c))]

integrateSymbolic(e, constant) ==
    IF IsDegenerate(e) THEN Poly(<<constant>>)
    ELSE LET integrated == EngineIntegrate(e)
         IN  IF integrated = Throw THEN Throw
             ELSE LET evaluatedAtZero == EngineAtZero(integrated)
                  IN  IF evaluatedAtZero = Throw THEN Throw
                      ELSE EngineAdjust(integrated, evaluatedAtZero, constant)

\* what a solver returns: the triple, or thrown = TRUE when a component raised
Solution(X, U, A) ==
    IF \E i \in 1..4 : X[i] = Throw \/ U[i] = Throw \/ A[i] = Throw
    THEN [thrown |-> TRUE, X |-> <<>>, U |-> <<>>, A |-> <<>>]
    ELSE [thrown |-> FALSE, X |-> X, U |-> U, A |-> A]

solveFromPosition(X) ==
    LET U == [i \in 1..4 |-> deriveSymbolic(X[i])]
        A == [i \in 1..4 |-> deriveSymbolic(U[i])]
    IN  Solution(X, U, A)

solveFromVelocity(U, X0) ==
    LET X == [i \in 1..4 |-> integrateSymbolic(U[i], X0[i])]
        A == [i \in 1..4 |-> deriveSymbolic(U[i])]
    IN  Solution(X, U, A)

solveFromAcceleration(A, U0, X0) ==
    LET U == [i \in 1..4 |-> integrateSymbolic(A[i], U0[i])]
        X == [i \in 1..4 |-> integrateSymbolic(U[i], X0[i])]
    IN  Solution(X, U, A)

(***************************************************************************)
(* Idle values of the sub-machines, and the store's initial state.         *)
(***************************************************************************)
EvIdle == [pc |-> "idle", V |-> <<Zero, Zero, Zero, Zero>>, tau |-> 0, res |-> ZeroVec]
FtIdle == [pc |-> "idle", X |-> <<Zero, Zero, Zero, Zero>>, target |-> 0,
           low |-> 0, high |-> 0, iter |-> 0, result |-> 0]
PhIdle == [pc |-> "idle"]
NoAct == [op |-> "none", id |-> "none", thrown |-> FALSE, edits |-> 0]

(***************************************************************************)
(* SpecEval: evaluateVectorAtTau as a function of its inputs.              *)
(***************************************************************************)
EvalComponents ==
    {Poly(<<10, 1>>), Poly(<<0, 0, 1>>), RPow(<<0>>, 0), SqrtE(<<0>>, 0), Bad}
EvalTaus == {Num(0 - 500), Num(0 - 4), 0, Num(4), Num(1000)}

InitEval ==
    /\ particles = <<>>
    /\ activeReferenceFrameId = "Lab"
    /\ animationTime = 0
    /\ tauRange = Num(50)
    /\ timeMin = Num(0 - 10)
    /\ timeMax = Num(10)
    /\ lastAct = NoAct
    /\ ft = FtIdle
    /\ ph = PhIdle
    /\ \E V \in [1..4 -> EvalComponents], tau \in EvalTaus :
          ev = [pc |-> "call", V |-> V, tau |-> tau, res |-> ZeroVec]

Evaluate ==
    /\ ev.pc = "call"
    /\ ev' = [ev EXCEPT !.pc = "done", !.res = evaluateVectorAtTau(ev.V, ev.tau)]
    /\ UNCHANGED <<particles, activeReferenceFrameId, animationTime, tauRange, timeMin,
                    timeMax, lastAct, ft, ph>>

NextEval == Evaluate

SpecEval == InitEval /\ [][NextEval]_vars

\* C4: evaluateVectorAtTau never throws; when any one of the four components
\* throws or is NaN the result is the whole zero vector, and otherwise it is
\* the four evaluated components in order.
C4_AllOrZero ==
    ev.pc = "done" =>
          LET r == [i \in 1..4 |-> EvalComponent(ev.V[i], ev.tau)]
              failed == \E i \in 1..4 : r[i] = Thrown \/ IsNaN(r[i])
          IN  /\ \A i \in 1..4 : ev.res[i] # Thrown /\ ~IsNaN(ev.res[i])
              /\ failed => ev.res = ZeroVec
              /\ ~failed => ev.res = r

\* a call in which the second component is NaN while the first evaluates to 6
C4_Witness ==
    /\ ev.pc = "done"
    /\ EvalComponent(ev.V[1], ev.tau) = Num(6)
    /\ IsNaN(EvalComponent(ev.V[2], ev.tau))
    /\ ev.res = ZeroVec

(***************************************************************************)
(* findTauForLabTime (engine/cas.ts): 100 bisection steps on [-1000, 1000]. *)
(***************************************************************************)
MaxIter == 100
BracketLow == Num(0 - 1000)
BracketHigh == Num(1000)
Tol == DecFloor(1, 10000)        \* 1e-4
ClampResidual == Num(100)

\* Math.abs(evaluateVectorAtTau(positionExpr, tau)[0] - target_t)
LabResidual(positionExpr, tau, target_t) ==
    FAbs(FSub(evaluateVectorAtTau(positionExpr, tau)[1], target_t))

\* the loop body with the bisection direction reversed
FindStep_reversed(positionExpr, target_t, low, high) ==
    LET mid == Half(FAdd(low, high))
        t_mid == evaluateVectorAtTau(positionExpr, mid)[1]
    IN  IF IsNaN(t_mid) THEN [ret |-> TRUE, val |-> 0, low |-> low, high |-> high]
        ELSE IF FLt(FAbs(FSub(t_mid, target_t)), Tol)
             THEN [ret |-> TRUE, val |-> mid, low |-> low, high |-> high]
        ELSE IF FLt(t_mid, target_t)
             THEN [ret |-> FALSE, val |-> 0, low |-> low, high |-> mid]
             ELSE [ret |-> FALSE, val |-> 0, low |-> mid, high |-> high]

\* the loop body leaving low in place where it should move up to mid
FindStep_stalled(positionExpr, target_t, low, high) ==
    LET mid == Half(FAdd(low, high))
        t_mid == evaluateVectorAtTau(positionExpr, mid)[1]
    IN  IF IsNaN(t_mid) THEN [ret |-> TRUE, val |-> 0, low |-> low, high |-> high]
        ELSE IF FLt(FAbs(FSub(t_mid, target_t)), Tol)
             THEN [ret |-> TRUE, val |-> mid, low |-> low, high |-> high]
        ELSE IF FLt(t_mid, target_t)
             THEN [ret |-> FALSE, val |-> 0, low |-> low, high |-> high]
             ELSE [ret |-> FALSE, val |-> 0, low |-> low, high |-> mid]

\* one pass of the loop body: either a return value or the narrowed bracket
FindStep(positionExpr, target_t, low, high) ==
    LET mid == Half(FAdd(low, high))
        t_mid == evaluateVectorAtTau(positionExpr, mid)[1]
    IN  IF IsNaN(t_mid) THEN [ret |-> TRUE, val |-> 0, low |-> low, high |-> high]
        ELSE IF FLt(FAbs(FSub(t_mid, target_t)), Tol)
             THEN [ret |-> TRUE, val |-> mid, low |-> low, high |-> high]
        ELSE IF FLt(t_mid, target_t)
             THEN [ret |-> FALSE, val |-> 0, low |-> mid, high |-> high]
             ELSE [ret |-> FALSE, val |-> 0, low |-> low, high |-> mid]

\* the code after the loop, without the clamp to 0
FindFinal_unclamped(positionExpr, target_t, low, high) == Half(FAdd(low, high))

\* the code after the loop, clamping the small residuals instead of the large
FindFinal_inverted(positionExpr, target_t, low, high) ==
    LET result_tau == Half(FAdd(low, high))
        t_final == evaluateVectorAtTau(positionExpr, result_tau)[1]
    IN  IF FGt(FAbs(FSub(t_final, target_t)), ClampResidual) THEN result_tau ELSE 0

\* the code after the loop
FindFinal(positionExpr, target_t, low, high) ==
    LET result_tau == Half(FAdd(low, high))
        t_final == evaluateVectorAtTau(positionExpr, result_tau)[1]
    IN  IF FGt(FAbs(FSub(t_final, target_t)), ClampResidual) THEN 0 ELSE result_tau

\* n passes of the loop from the bracket of s, stopping at a return; the
\* passes are split in two runs to keep the evaluation shallow
RECURSIVE FindPasses(_, _, _, _)
FindPasses(positionExpr, target_t, s, n) ==
    IF s.ret \/ n = 0 THEN s
    ELSE IF n = 1 THEN FindStep(positionExpr, target_t, s.low, s.high)
    ELSE FindPasses(positionExpr, target_t,
                    FindPasses(positionExpr, target_t, s, n \div 2), n - (n \div 2))

\* the for loop from pass iter on, then the code after it
FindLoop(positionExpr, target_t, low, high, iter) ==
    LET s == FindPasses(positionExpr, target_t,
                        [ret |-> FALSE, val |-> 0, low |-> low, high |-> high],
                        MaxIter - iter)
    IN  IF s.ret THEN s.val ELSE FindFinal(positionExpr, target_t, s.low, s.high)

findTauForLabTime(positionExpr, target_t) ==
    FindLoop(positionExpr, target_t, BracketLow, BracketHigh, 0)

(***************************************************************************)
(* SpecFind: one call of findTauForLabTime, an action per loop pass.       *)
(***************************************************************************)
FindTimes ==
    {Poly(<<10, 1>>), Poly(<<0, 2>>), Poly(<<0, 0, 1>>), RPow(<<0>>, 0), SqrtE(<<0>>, 0)}
FindSpaces == {Zero, Poly(<<0, 1>>), RPow(<<0>>, 0), SqrtE(<<0>>, 0)}
FindTargets == {Num(0 - 5), Num(5), Num(2000), 30000}

InitFind ==
    /\ particles = <<>>
    /\ activeReferenceFrameId = "Lab"
    /\ animationTime = 0
    /\ tauRange = Num(50)
    /\ timeMin = Num(0 - 10)
    /\ timeMax = Num(10)
    /\ lastAct = NoAct
    /\ ev = EvIdle
    /\ ph = PhIdle
    /\ \E t \in FindTimes, x \in FindSpaces, target \in FindTargets :
          ft = [pc |-> "loop", X |-> <<t, x, Zero, Zero>>, target |-> target,
                low |-> BracketLow, high |-> BracketHigh, iter |-> 0, result |-> 0]

FindIterate ==
    /\ ft.pc = "loop"
    /\ ft.iter < MaxIter
    /\ LET s == FindStep(ft.X, ft.target, ft.low, ft.high)
       IN  ft' = IF s.ret
                 THEN [ft EXCEPT !.pc = "done", !.result = s.val]
                 ELSE [ft EXCEPT !.low = s.low, !.high = s.high, !.iter = ft.iter + 1]
    /\ UNCHANGED <<particles, activeReferenceFrameId, animationTime, tauRange, timeMin,
                    timeMax, lastAct, ev, ph>>

FindFinish ==
    /\ ft.pc = "loop"
    /\ ft.iter >= MaxIter
    /\ ft' = [ft EXCEPT !.pc = "done",
                        !.result = FindFinal(ft.X, ft.target, ft.low, ft.high)]
    /\ UNCHANGED <<particles, activeReferenceFrameId, animationTime, tauRange, timeMin,
                    timeMax, lastAct, ev, ph>>

NextFind == FindIterate \/ FindFinish

SpecFind == InitFind /\ [][NextFind]_vars

\* sample proper times used to classify a component over the bracket
BracketSamples == {BracketLow, Num(0 - 1), 0, Num(1), BracketHigh}

Defined(x) == x # Thrown /\ ~IsNaN(x)

\* every component evaluates, without a throw and without NaN, over the bracket
EvaluableOnBracket(X) ==
    \A s \in BracketSamples, i \in 1..4 : Defined(EvalComponent(X[i], s))

StrictlyIncreasing(e) ==
    \A a, b \in BracketSamples :
        a < b => /\ Defined(EvalComponent(e, a)) /\ Defined(EvalComponent(e, b))
                 /\ EvalComponent(e, a) < EvalComponent(e, b)

NotMonotonic(e) ==
    \E a, b, c \in BracketSamples \ {0} :
        /\ a < b /\ b < c
        /\ \/ EvalComponent(e, a) < EvalComponent(e, b) /\ EvalComponent(e, b) > EvalComponent(e, c)
           \/ EvalComponent(e, a) > EvalComponent(e, b) /\ EvalComponent(e, b) < EvalComponent(e, c)

\* the target lies between the component's values at the two ends of the bracket
Attains(e, target_t) ==
    /\ FLe(EvalComponent(e, BracketLow), target_t)
    /\ FLe(target_t, EvalComponent(e, BracketHigh))

\* the component rises by less than the tolerance over one step of the finest
\* bracket the search reaches
Gentle(e) ==
    \A s \in BracketSamples \ {BracketHigh} :
        FLt(FSub(EvalComponent(e, s + 1), EvalComponent(e, s)), Tol)

\* |time component at the returned tau - target|
ComponentResidual(e, tau, target_t) == FAbs(FSub(EvalComponent(e, tau), target_t))

\* C6 as stated: for a strictly increasing time component and a target it
\* attains on the bracket, the returned tau has a time component within 1e-4 of
\* the target.
C6_AsStated ==
    (ft.pc = "done" /\ StrictlyIncreasing(ft.X[1]) /\ Attains(ft.X[1], ft.target))
        => FLt(ComponentResidual(ft.X[1], ft.result, ft.target), Tol)

\* C6, amended: the same conclusion when moreover all four components of the
\* position vector evaluate (no throw, no NaN) over the bracket and the time
\* component rises by less than 1e-4 across the finest bracket of the search.
C6_Converges ==
    (/\ ft.pc = "done"
     /\ StrictlyIncreasing(ft.X[1])
     /\ Attains(ft.X[1], ft.target)
     /\ EvaluableOnBracket(ft.X)
     /\ Gentle(ft.X[1]))
        => FLt(ComponentResidual(ft.X[1], ft.result, ft.target), Tol)

\* tau + 10 inverted at 5 after several passes: the result is within 1e-4 of -5
C6_Witness ==
    /\ ft.pc = "done"
    /\ ft.iter > 3
    /\ StrictlyIncreasing(ft.X[1]) /\ Attains(ft.X[1], ft.target)
    /\ EvaluableOnBracket(ft.X) /\ Gentle(ft.X[1])
    /\ FLt(FAbs(FSub(ft.result, Num(0 - 5))), Tol)

\* C7 as stated: for a time component that is not monotonic on the bracket the
\* result is a tau with residual below 1e-4 or exactly 0.
C7_AsStated ==
    (ft.pc = "done" /\ NotMonotonic(ft.X[1]))
        => \/ ft.result = 0
           \/ FLt(LabResidual(ft.X, ft.result, ft.target), Tol)

\* C7, amended: for such a component the result is exactly 0, or a tau with
\* residual below 1e-4, or the midpoint of the bracket left after all 100
\* passes, whose residual is then at most 100.
C7_Bounded ==
    (ft.pc = "done" /\ NotMonotonic(ft.X[1]))
        => \/ ft.result = 0
           \/ FLt(LabResidual(ft.X, ft.result, ft.target), Tol)
           \/ /\ ft.iter = MaxIter
              /\ ft.result = Half(FAdd(ft.low, ft.high))
              /\ FLe(LabResidual(ft.X, ft.result, ft.target), ClampResidual)

\* a non-monotonic component for which all 100 passes ran and a nonzero tau
\* with residual of 1e-4 or more came back
C7_Witness ==
    /\ ft.pc = "done"
    /\ NotMonotonic(ft.X[1])
    /\ ft.iter = MaxIter
    /\ ft.result # 0
    /\ FGe(LabResidual(ft.X, ft.result, ft.target), Tol)

\* the time component itself, evaluated at the midpoint of the bracket
MidpointTime(f) == EvalComponent(f.X[1], Half(FAdd(f.low, f.high)))

\* C16 as stated: a pass of the loop at whose midpoint the time component
\* evaluates to NaN ends the search at once with the result 0, whatever the
\* target.
C16_AsStated ==
    [][(ft.pc = "loop" /\ ft.iter < MaxIter /\ IsNaN(MidpointTime(ft)))
          => (ft'.pc = "done" /\ ft'.result = 0)]_vars

\* the call ran all its passes: an early exit leaves iter below MaxIter
Exhausted(f) == f.pc = "done" /\ f.iter = MaxIter

\* C17: a call that runs all 100 passes returns 0 when the residual at the
\* midpoint of the final bracket exceeds 100 and that midpoint otherwise, so a
\* non-zero tau it returns has a residual of at most 100.
C17_ClampedAfterLoop ==
    Exhausted(ft) =>
        LET mid == Half(FAdd(ft.low, ft.high))
        IN  /\ ft.result = IF FGt(LabResidual(ft.X, mid, ft.target), ClampResidual)
                           THEN 0 ELSE mid
            /\ ft.result # 0 => FLe(LabResidual(ft.X, ft.result, ft.target), ClampResidual)

\* all passes ran on a bracket closing in on a non-zero midpoint whose residual
\* exceeds 100, and 0 came back
C17_Witness ==
    /\ Exhausted(ft)
    /\ Half(FAdd(ft.low, ft.high)) # 0
    /\ FGt(LabResidual(ft.X, Half(FAdd(ft.low, ft.high)), ft.target), ClampResidual)
    /\ ft.result = 0

\* the loop is a for loop of a sequential function, so each pass is taken:
\* WF_vars(NextFind), with ENABLED <<NextFind>>_vars written out as
\* ft.pc = "loop" (both actions are guarded by it and change ft)
SpecFindLive == SpecFind /\ ([]<>(ft.pc # "loop") \/ []<><<NextFind>>_vars)

\* at most 100 passes, the bracket inside [-1000, 1000], the result inside it
WithinBracket ==
    /\ ft.iter <= MaxIter
    /\ BracketLow <= ft.low /\ ft.low <= ft.high /\ ft.high <= BracketHigh
    /\ ft.pc = "done" => (BracketLow <= ft.result /\ ft.result <= BracketHigh)

\* a step never lowers low, never raises high
Narrows == ft'.low >= ft.low /\ ft'.high <= ft.high

\* a pass that goes on to the next one halves the width of the bracket
Halves == ft'.iter # ft.iter => 2 * (ft'.high - ft'.low) = ft.high - ft.low

\* the same for a pass whose midpoint (low + high) / 2 is computed without
\* rounding; with rounding the width does not grow
HalvesWhenExact ==
    ft'.iter # ft.iter =>
        /\ ft'.high - ft'.low <= ft.high - ft.low
        /\ (ft.low + ft.high) % 2 = 0 => 2 * (ft'.high - ft'.low) = ft.high - ft.low

\* a pass ends the call exactly when the residual at its midpoint is below 1e-4
EarlyExit ==
    (ft.pc = "loop" /\ ft.iter < MaxIter) =>
        (ft'.pc = "done"
            <=> FLt(LabResidual(ft.X, Half(FAdd(ft.low, ft.high)), ft.target), Tol))

\* C18 as stated: the call ends after at most 100 passes; throughout,
\* -1000 <= low <= high <= 1000, low never decreases, high never increases and
\* the width of the bracket halves at every pass; the result lies in
\* [-1000, 1000]; a pass ends the call early exactly when its midpoint residual
\* is below 1e-4.
C18_AsStated ==
    /\ []WithinBracket
    /\ [][Narrows /\ Halves /\ EarlyExit]_vars
    /\ <>(ft.pc = "done")

\* C18, amended: the same, the width of the bracket halving at every pass
\* whose midpoint is computed without rounding and never growing at the others.
C18_Terminates ==
    /\ []WithinBracket
    /\ [][Narrows /\ HalvesWhenExact /\ EarlyExit]_vars
    /\ <>(ft.pc = "done")

\* all 100 passes ran and the bracket has closed to one grid step or less,
\* strictly inside [-1000, 1000]
C18_Witness ==
    /\ ft.pc = "done" /\ ft.iter = MaxIter
    /\ ft.high - ft.low <= 1
    /\ BracketLow < ft.low /\ ft.high < BracketHigh

(***************************************************************************)
(* LORENTZ ENGINE (the physics functions of components/SpacetimeGraph.tsx). *)
(***************************************************************************)
\* smallest grid value >= x / 10^e
RECURSIVE DecCeilPow(_, _)
DecCeilPow(x, e) == IF e = 0 THEN x ELSE DecCeilPow((x + 9) \div 10, e - 1)

Eps10 == DecCeilPow(Scale, 10)    \* 1e-10: |x| < 1e-10 iff |x| < Eps10 on the grid
Eps6 == DecCeilPow(Scale, 6)      \* 1e-6
Eps5 == DecCeilPow(Scale, 5)      \* 1e-5

Sq(x) == FMul(x, x)               \* Math.pow(x, 2)

\* the square with the Euclidean signature ++++
magnitudeSquared_euclidean(V) ==
    FAdd(FAdd(FAdd(Sq(V[1]), Sq(V[2])), Sq(V[3])), Sq(V[4]))

magnitudeSquared(V) ==
    FAdd(FAdd(FAdd(FNeg(Sq(V[1])), Sq(V[2])), Sq(V[3])), Sq(V[4]))

extract3Velocity(U) ==
    IF FLt(FAbs(U[1]), Eps10) THEN <<0, 0, 0>>
    ELSE <<FDiv(U[2], U[1]), FDiv(U[3], U[1]), FDiv(U[4], U[1])>>

SpeedSquared(v3) == FAdd(FAdd(Sq(v3[1]), Sq(v3[2])), Sq(v3[3]))

validateCausality(U) ==
    LET U_squared == magnitudeSquared(U)
        v_squared == SpeedSquared(extract3Velocity(U))
    IN  IF FLt(U[1], 0)
        THEN [isValid |-> FALSE, U_squared |-> U_squared, v_squared |-> 0]
        ELSE IF FGt(FAbs(FSub(U_squared, FNeg(One))), Tol)
        THEN [isValid |-> FALSE, U_squared |-> U_squared, v_squared |-> 0]
        ELSE IF FGe(v_squared, One)
        THEN [isValid |-> FALSE, U_squared |-> U_squared, v_squared |-> v_squared]
        ELSE [isValid |-> TRUE, U_squared |-> U_squared, v_squared |-> v_squared]

calculateGamma(v3) ==
    LET v_squared == SpeedSquared(v3)
    IN  IF FGe(v_squared, One) THEN PInf
        ELSE FDiv(One, FSqrt(FSub(One, v_squared)))

Identity4 ==
    <<<<One, 0, 0, 0>>, <<0, One, 0, 0>>, <<0, 0, One, 0>>, <<0, 0, 0, One>>>>

\* the boost with gamma in place of gamma - 1 in the spatial block
getLorentzBoostMatrix_stretched(v3) ==
    LET v2 == SpeedSquared(v3)
        gamma == calculateGamma(v3)
    IN  IF FLt(v2, Eps10) THEN Identity4
        ELSE [i \in 1..4 |-> [j \in 1..4 |->
                IF i = 1 /\ j = 1 THEN gamma
                ELSE IF i = 1 THEN FMul(FNeg(gamma), v3[j - 1])
                ELSE IF j = 1 THEN FMul(FNeg(gamma), v3[i - 1])
                ELSE FAdd(IF i = j THEN One ELSE 0,
                          FDiv(FMul(gamma, FMul(v3[i - 1], v3[j - 1])), v2))]]

getLorentzBoostMatrix(v3) ==
    LET v2 == SpeedSquared(v3)
        gamma == calculateGamma(v3)
    IN  IF FLt(v2, Eps10) THEN Identity4
        ELSE [i \in 1..4 |-> [j \in 1..4 |->
                IF i = 1 /\ j = 1 THEN gamma
                ELSE IF i = 1 THEN FMul(FNeg(gamma), v3[j - 1])
                ELSE IF j = 1 THEN FMul(FNeg(gamma), v3[i - 1])
                ELSE FAdd(IF i = j THEN One ELSE 0,
                          FDiv(FMul(FSub(gamma, One), FMul(v3[i - 1], v3[j - 1])), v2))]]

\* the inner loop: sum over j of Lambda[i][j] * V[j], accumulated from 0
RECURSIVE RowSum(_, _, _)
RowSum(row, V, j) ==
    IF j = 0 THEN 0 ELSE FAdd(RowSum(row, V, j - 1), FMul(row[j], V[j]))

applyLorentzTransformation(Lambda, V) == [i \in 1..4 |-> RowSum(Lambda[i], V, 4)]

\* coords.x[i]: undefined past the end of the array, and undefined - number is NaN
At(arr, i) == IF i <= Len(arr) THEN arr[i] ELSE NaN

transformWorldlineCoordinates(coords, Lambda, X_origin, tau) ==
    LET len == Len(coords.t)
        Vp(i) == applyLorentzTransformation(Lambda,
                    <<FSub(At(coords.t, i), X_origin[1]), FSub(At(coords.x, i), X_origin[2]),
                      FSub(At(coords.y, i), X_origin[3]), FSub(At(coords.z, i), X_origin[4])>>)
    IN  [t |-> [i \in 1..len |-> FAdd(Vp(i)[1], tau)],
         x |-> [i \in 1..len |-> Vp(i)[2]],
         y |-> [i \in 1..len |-> Vp(i)[3]],
         z |-> [i \in 1..len |-> Vp(i)[4]]]

(***************************************************************************)
(* SpecPhys: one call into the Lorentz engine, on vectors that come out of *)
(* evaluateVectorAtTau and on boosts that come out of getLorentzBoostMatrix.*)
(***************************************************************************)
NoCoords == [t |-> <<>>, x |-> <<>>, y |-> <<>>, z |-> <<>>]
NoVerdict == [isValid |-> FALSE, U_squared |-> 0, v_squared |-> 0]

PhCall(op, U, v3, V, coords, origin, offset) ==
    [pc |-> "call", op |-> op, U |-> U, v3 |-> v3, V |-> V,
     coords |-> coords, coordsAtCall |-> coords, origin |-> origin, offset |-> offset,
     verdict |-> NoVerdict, res |-> ZeroVec, out |-> NoCoords]

PhysU ==
    {<<One, 0, 0, 0>>, <<20000, 60000, 0, 0>>, <<50000, 30000, 0, 0>>,
     <<Num(0 - 1), 0, 0, 0>>, <<0, 0, 0, 0>>, <<0, One, 0, 0>>, <<Num(2), 0, 0, 0>>,
     <<Num(1), Num(2), 0, 0>>, <<40001, 0, 0, 0>>, <<40003, 0, 0, 0>>,
     <<Num(200), Num(180), 0, 0>>, <<Num(200), 0, Num(220), 0>>}

PhysV3 ==
    {<<0, 0, 0>>, <<24000, 0, 0>>, <<0, 32000, 0>>, <<0 - 24000, 0, 32000>>,
     <<One, 0, 0>>, <<Num(2), 0, 0>>}

PhysX ==
    {<<Poly(<<0, 1>>), Zero, Zero, Zero>>,
     <<Poly(<<0, 2>>), Poly(<<0, 1>>), Zero, Zero>>,
     <<Poly(<<0, 0, 1>>), Poly(<<0, 1>>), Zero, Zero>>,
     <<Poly(<<0, 1>>), RPow(<<0>>, 0), Zero, Zero>>}

PhysTaus == {Num(0 - 1000), 0, Num(2), Num(1000)}
PhysSweeps == {<<Num(0 - 2), 0, Num(2)>>, <<Num(0 - 1000), 0, Num(1000)>>}
PhysOffsets == {0, Num(3)}

\* the arrays plotData fills: one evaluateVectorAtTau per proper time of the sweep
Sample(X, taus) ==
    [t |-> [i \in 1..Len(taus) |-> evaluateVectorAtTau(X, taus[i])[1]],
     x |-> [i \in 1..Len(taus) |-> evaluateVectorAtTau(X, taus[i])[2]],
     y |-> [i \in 1..Len(taus) |-> evaluateVectorAtTau(X, taus[i])[3]],
     z |-> [i \in 1..Len(taus) |-> evaluateVectorAtTau(X, taus[i])[4]]]

InitPhys ==
    /\ particles = <<>>
    /\ activeReferenceFrameId = "Lab"
    /\ animationTime = 0
    /\ tauRange = Num(50)
    /\ timeMin = Num(0 - 10)
    /\ timeMax = Num(10)
    /\ lastAct = NoAct
    /\ ev = EvIdle
    /\ ft = FtIdle
    /\ \/ \E U \in PhysU :
             ph = PhCall("validate", U, <<0, 0, 0>>, ZeroVec, NoCoords, ZeroVec, 0)
       \/ \E X \in PhysX, tau \in PhysTaus, v3 \in PhysV3 :
             ph = PhCall("apply", ZeroVec, v3, evaluateVectorAtTau(X, tau), NoCoords, ZeroVec, 0)
       \/ \E X \in PhysX, taus \in PhysSweeps, v3 \in PhysV3, k \in 0..3, offset \in PhysOffsets :
             ph = PhCall("worldline", ZeroVec, v3, ZeroVec, Sample(X, taus),
                         IF k = 0 THEN ZeroVec ELSE evaluateVectorAtTau(X, taus[k]), offset)

Validate ==
    /\ ph.pc = "call" /\ ph.op = "validate"
    /\ ph' = [ph EXCEPT !.pc = "done", !.verdict = validateCausality(ph.U)]
    /\ UNCHANGED <<particles, activeReferenceFrameId, animationTime, tauRange, timeMin,
                    timeMax, lastAct, ev, ft>>

Boost ==
    /\ ph.pc = "call" /\ ph.op = "apply"
    /\ ph' = [ph EXCEPT !.pc = "done",
                        !.res = applyLorentzTransformation(getLorentzBoostMatrix(ph.v3), ph.V)]
    /\ UNCHANGED <<particles, activeReferenceFrameId, animationTime, tauRange, timeMin,
                    timeMax, lastAct, ev, ft>>

TransformWorldline ==
    /\ ph.pc = "call" /\ ph.op = "worldline"
    /\ ph' = [ph EXCEPT !.pc = "done",
                        !.out = transformWorldlineCoordinates(
                                    ph.coords, getLorentzBoostMatrix(ph.v3), ph.origin, ph.offset)]
    /\ UNCHANGED <<particles, activeReferenceFrameId, animationTime, tauRange, timeMin,
                    timeMax, lastAct, ev, ft>>

NextPhys == Validate \/ Boost \/ TransformWorldline

SpecPhys == InitPhys /\ [][NextPhys]_vars

AllFinite(s) == \A i \in 1..Len(s) : IsFinite(s[i])

\* C5 as stated: every vector produced by evaluation or by transformation has
\* four finite components (no NaN, no +/-Infinity), for every expression, tau
\* and 3-velocity.
C5_AsStated ==
    /\ (ph.op = "apply") => AllFinite(ph.V)
    /\ (ph.op = "apply" /\ ph.pc = "done") => AllFinite(ph.res)
    /\ (ph.op = "worldline") =>
          AllFinite(ph.coords.t) /\ AllFinite(ph.coords.x) /\ AllFinite(ph.origin)
    /\ (ph.op = "worldline" /\ ph.pc = "done") =>
          /\ AllFinite(ph.out.t) /\ AllFinite(ph.out.x)
          /\ AllFinite(ph.out.y) /\ AllFinite(ph.out.z)

\* C8 as stated: isValid is true exactly when U0 >= 0, |U.U + 1| <= 1e-4 and
\* the 3-speed squared is below 1; U_squared is the Minkowski square; and a U
\* with U0 >= 0 whose spatial part exceeds its time part is reported invalid
\* with U_squared > 0.
C8_AsStated ==
    (ph.op = "validate" /\ ph.pc = "done") =>
        LET U == ph.U
            UU == FAdd(FAdd(FAdd(FNeg(Sq(U[1])), Sq(U[2])), Sq(U[3])), Sq(U[4]))
            speed2 == SpeedSquared(extract3Velocity(U))
        IN  /\ ph.verdict.isValid =
                  (FGe(U[1], 0) /\ FLe(FAbs(FAdd(UU, One)), Tol) /\ FLt(speed2, One))
            /\ ph.verdict.U_squared = UU
            /\ (FGe(U[1], 0) /\ \E i \in 2..4 : FGt(FAbs(U[i]), U[1]))
                  => ~ph.verdict.isValid /\ FGt(ph.verdict.U_squared, 0)

\* sample i of a coordinate record, as an event
Event(coords, i) == <<At(coords.t, i), At(coords.x, i), At(coords.y, i), At(coords.z, i)>>

\* C9 as stated: the output arrays have the length of coords.t; sample i is L
\* applied to (coords_i - origin) with the offset added to the time component
\* only; the origin event is mapped to (offset, 0, 0, 0) for every boost; with
\* the identity boost, zero origin and zero offset the output equals the input;
\* the input arrays are not modified.
C9_AsStated ==
    (ph.op = "worldline" /\ ph.pc = "done") =>
        LET L == getLorentzBoostMatrix(ph.v3)
            n == Len(ph.coords.t)
            Diff(i) == [j \in 1..4 |-> FSub(Event(ph.coords, i)[j], ph.origin[j])]
        IN  /\ Len(ph.out.t) = n /\ Len(ph.out.x) = n /\ Len(ph.out.y) = n /\ Len(ph.out.z) = n
            /\ \A i \in 1..n :
                  LET W == applyLorentzTransformation(L, Diff(i))
                  IN  Event(ph.out, i) = <<FAdd(W[1], ph.offset), W[2], W[3], W[4]>>
            /\ \A i \in 1..n :
                  Event(ph.coords, i) = ph.origin => Event(ph.out, i) = <<ph.offset, 0, 0, 0>>
            /\ (L = Identity4 /\ ph.origin = ZeroVec /\ ph.offset = 0) => ph.out = ph.coords
            /\ ph.coords = ph.coordsAtCall

(***************************************************************************)
(* PARTICLE STORE (store/useSimulatorStore.ts).  Initial conditions are    *)
(* whole numbers; an optional field that is absent holds Undefined.        *)
(***************************************************************************)
Undefined == <<>>

MaxParticles == 2
MaxEdits == 3      \* solver-calling updates explored in one session
Ids == {"a", "b"}
Colors == {"#ef4444"}
Names == {<<"Probe">>}
InputTypes == {"position", "velocity", "acceleration"}

\* what the user can type into the four fields of a VectorInput
InputVectors ==
    {<<Poly(<<0, 1>>), Bad, Zero, Zero>>,                 \* tau, 1/, 0, 0
     <<Poly(<<1>>), RPow(<<0>>, 0), Zero, Zero>>}         \* 1, 1/tau, 0, 0
InitialPositions == {<<0, 0, 0, 0>>, <<0, 1, 0, 0>>}
InitialVelocities == {<<1, 0, 0, 0>>, <<2, 1, 0, 0>>}
AnimationTimes == {0, Num(5)}
TauRanges == {Num(5), Num(50)}

createDefaultParticle(id, color) ==
    [id |-> id, name |-> <<"Particle", id>>, color |-> color, mass |-> 1,
     initialPosition |-> <<0, 0, 0, 0>>,
     initialVelocity |-> <<1, 0, 0, 0>>,
     inputPosition |-> <<Poly(<<0, 1>>), Zero, Zero, Zero>>,
     inputVelocity |-> Undefined,
     inputAcceleration |-> Undefined,
     positionExpr |-> <<Poly(<<0, 1>>), Zero, Zero, Zero>>,
     velocityExpr |-> <<Poly(<<1>>), Zero, Zero, Zero>>,
     accelerationExpr |-> <<Zero, Zero, Zero, Zero>>]

\* the solver call of each branch
SolveInput(inputType, input, U0, X0) ==
    IF inputType = "position" THEN solveFromPosition(input)
    ELSE IF inputType = "velocity" THEN solveFromVelocity(input, X0)
    ELSE solveFromAcceleration(input, U0, X0)

\* newP after the branch has set its field and deleted the other two
WithPrimary(p, inputType, input) ==
    [p EXCEPT !.inputPosition = IF inputType = "position" THEN input ELSE Undefined,
              !.inputVelocity = IF inputType = "velocity" THEN input ELSE Undefined,
              !.inputAcceleration = IF inputType = "acceleration" THEN input ELSE Undefined]

\* updateParticleInput, publishing on a throw the part of the triple it has
updateParticleInput_partial(p, inputType, input) ==
    LET sol == SolveInput(inputType, input, p.initialVelocity, p.initialPosition)
        newP == WithPrimary(p, inputType, input)
    IN  IF sol.thrown
        THEN [newP EXCEPT !.positionExpr = IF inputType = "position" THEN input ELSE @,
                          !.velocityExpr = IF inputType = "velocity" THEN input ELSE @,
                          !.accelerationExpr = IF inputType = "acceleration" THEN input ELSE @]
        ELSE [newP EXCEPT !.positionExpr = sol.X, !.velocityExpr = sol.U,
                          !.accelerationExpr = sol.A]

\* updateParticleInput, keeping the fields of the other kinds
updateParticleInput_keeping(p, inputType, input) ==
    LET sol == SolveInput(inputType, input, p.initialVelocity, p.initialPosition)
        newP == [p EXCEPT !.inputPosition = IF inputType = "position" THEN input ELSE @,
                          !.inputVelocity = IF inputType = "velocity" THEN input ELSE @,
                          !.inputAcceleration = IF inputType = "acceleration" THEN input ELSE @]
    IN  IF sol.thrown THEN newP
        ELSE [newP EXCEPT !.positionExpr = sol.X, !.velocityExpr = sol.U,
                          !.accelerationExpr = sol.A]

\* the map callback of updateParticleInput for the particle whose id matches
updateParticleInput(p, inputType, input) ==
    LET sol == SolveInput(inputType, input, p.initialVelocity, p.initialPosition)
        newP == WithPrimary(p, inputType, input)
    IN  IF sol.thrown THEN newP
        ELSE [newP EXCEPT !.positionExpr = sol.X, !.velocityExpr = sol.U,
                          !.accelerationExpr = sol.A]

\* the solver call of updateParticleInitialConditions: none for a position primary
SolveInitialConditions(p, nextX0, nextU0) ==
    IF p.inputVelocity # Undefined THEN solveFromVelocity(p.inputVelocity, nextX0)
    ELSE IF p.inputAcceleration # Undefined
         THEN solveFromAcceleration(p.inputAcceleration, nextU0, nextX0)
    ELSE [thrown |-> FALSE, X |-> p.positionExpr, U |-> p.velocityExpr, A |-> p.accelerationExpr]

\* updateParticleInitialConditions, storing the conditions without recomputing
updateParticleInitialConditions_stale(p, X0, U0) ==
    [p EXCEPT !.initialPosition = IF X0 = Undefined THEN @ ELSE X0,
              !.initialVelocity = IF U0 = Undefined THEN @ ELSE U0]

\* the map callback of updateParticleInitialConditions for the matching particle
updateParticleInitialConditions(p, X0, U0) ==
    LET nextX0 == IF X0 = Undefined THEN p.initialPosition ELSE X0
        nextU0 == IF U0 = Undefined THEN p.initialVelocity ELSE U0
        sol == SolveInitialConditions(p, nextX0, nextU0)
        q == [p EXCEPT !.initialPosition = nextX0, !.initialVelocity = nextU0]
    IN  IF sol.thrown THEN q
        ELSE [q EXCEPT !.positionExpr = sol.X, !.velocityExpr = sol.U,
                       !.accelerationExpr = sol.A]

IdsOf(ps) == {ps[i].id : i \in 1..Len(ps)}

\* ControlPanel: the kind and the vector shown for a particle
inputTypeOf(p) ==
    IF p.inputPosition # Undefined THEN "position"
    ELSE IF p.inputVelocity # Undefined THEN "velocity" ELSE "acceleration"
inputValueOf(p) ==
    IF p.inputPosition # Undefined THEN p.inputPosition
    ELSE IF p.inputVelocity # Undefined THEN p.inputVelocity
    ELSE IF p.inputAcceleration # Undefined THEN p.inputAcceleration
    ELSE <<Zero, Zero, Zero, Zero>>

Init ==
    /\ \E id \in Ids, color \in Colors : particles = <<createDefaultParticle(id, color)>>
    /\ activeReferenceFrameId = "Lab"
    /\ animationTime = 0
    /\ tauRange = Num(50)
    /\ timeMin = Num(0 - 10)
    /\ timeMax = Num(10)
    /\ lastAct = NoAct
    /\ ev = EvIdle
    /\ ft = FtIdle
    /\ ph = PhIdle

\* generateId draws a fresh random id
AddParticle ==
    /\ Len(particles) < MaxParticles
    /\ \E id \in Ids \ IdsOf(particles), color \in Colors :
          particles' = Append(particles, createDefaultParticle(id, color))
    /\ lastAct' = [NoAct EXCEPT !.edits = lastAct.edits]
    /\ UNCHANGED <<activeReferenceFrameId, animationTime, tauRange, timeMin, timeMax, ev, ft, ph>>

\* removeParticle, leaving the active frame as it was
removeParticle_keepingFrame(ps, frameId, id) ==
    [particles |-> SelectSeq(ps, LAMBDA p : p.id # id), activeReferenceFrameId |-> frameId]

\* removeParticle(id): the particles and the active frame it stores
removeParticle(ps, frameId, id) ==
    [particles |-> SelectSeq(ps, LAMBDA p : p.id # id),
     activeReferenceFrameId |-> IF frameId = id THEN "Lab" ELSE frameId]

\* the Remove button is rendered while more than one particle exists
RemoveParticle ==
    /\ Len(particles) > 1
    /\ \E id \in IdsOf(particles) :
          /\ particles' = removeParticle(particles, activeReferenceFrameId, id).particles
          /\ activeReferenceFrameId' =
                removeParticle(particles, activeReferenceFrameId, id).activeReferenceFrameId
          /\ lastAct' = [NoAct EXCEPT !.op = "removeParticle", !.id = id,
                                      !.edits = lastAct.edits]
    /\ UNCHANGED <<animationTime, tauRange, timeMin, timeMax, ev, ft, ph>>

UpdateParticleName ==
    /\ \E id \in IdsOf(particles), name \in Names :
          /\ particles' = [i \in 1..Len(particles) |->
                IF particles[i].id = id THEN [particles[i] EXCEPT !.name = name]
                ELSE particles[i]]
          /\ lastAct' = [NoAct EXCEPT !.edits = lastAct.edits]
    /\ UNCHANGED <<activeReferenceFrameId, animationTime, tauRange, timeMin, timeMax, ev, ft, ph>>

UpdateParticleColor ==
    /\ \E id \in IdsOf(particles), color \in Colors :
          /\ particles' = [i \in 1..Len(particles) |->
                IF particles[i].id = id THEN [particles[i] EXCEPT !.color = color]
                ELSE particles[i]]
          /\ lastAct' = [NoAct EXCEPT !.edits = lastAct.edits]
    /\ UNCHANGED <<activeReferenceFrameId, animationTime, tauRange, timeMin, timeMax, ev, ft, ph>>

\* a kind button (any kind, the vector shown) or a VectorInput blur (the kind
\* shown, any vector)
UpdateParticleInput ==
    /\ lastAct.edits < MaxEdits
    /\ \E k \in 1..Len(particles), inputType \in InputTypes :
        \E input \in InputVectors \cup {inputValueOf(particles[k])} :
          LET p == particles[k]
              sol == SolveInput(inputType, input, p.initialVelocity, p.initialPosition)
          IN  /\ inputType = inputTypeOf(p) \/ input = inputValueOf(p)
              /\ particles' = [i \in 1..Len(particles) |->
                    IF particles[i].id = p.id
                    THEN updateParticleInput(particles[i], inputType, input)
                    ELSE particles[i]]
              /\ lastAct' = [op |-> "updateParticleInput", id |-> p.id, thrown |-> sol.thrown,
                             edits |-> lastAct.edits + 1]
    /\ UNCHANGED <<activeReferenceFrameId, animationTime, tauRange, timeMin, timeMax, ev, ft, ph>>

\* the X0 field is shown for a velocity or acceleration primary, the U0 field
\* for an acceleration primary; each passes undefined for the other argument
UpdateParticleInitialConditions ==
    /\ lastAct.edits < MaxEdits
    /\ \E k \in 1..Len(particles),
          X0 \in InitialPositions \cup {Undefined}, U0 \in InitialVelocities \cup {Undefined} :
          LET p == particles[k]
              nextX0 == IF X0 = Undefined THEN p.initialPosition ELSE X0
              nextU0 == IF U0 = Undefined THEN p.initialVelocity ELSE U0
          IN  /\ (X0 = Undefined) # (U0 = Undefined)
              /\ X0 # Undefined => inputTypeOf(p) # "position"
              /\ U0 # Undefined => inputTypeOf(p) = "acceleration"
              /\ particles' = [i \in 1..Len(particles) |->
                    IF particles[i].id = p.id
                    THEN updateParticleInitialConditions(particles[i], X0, U0)
                    ELSE particles[i]]
              /\ lastAct' = [op |-> "updateParticleInitialConditions", id |-> p.id,
                             thrown |-> SolveInitialConditions(p, nextX0, nextU0).thrown,
                             edits |-> lastAct.edits + 1]
    /\ UNCHANGED <<activeReferenceFrameId, animationTime, tauRange, timeMin, timeMax, ev, ft, ph>>

SetActiveReferenceFrame ==
    /\ \E id \in IdsOf(particles) \cup {"Lab"} : activeReferenceFrameId' = id
    /\ lastAct' = [NoAct EXCEPT !.edits = lastAct.edits]
    /\ UNCHANGED <<particles, animationTime, tauRange, timeMin, timeMax, ev, ft, ph>>

SetAnimationTime ==
    /\ \E t \in AnimationTimes : animationTime' = t
    /\ lastAct' = [NoAct EXCEPT !.edits = lastAct.edits]
    /\ UNCHANGED <<particles, activeReferenceFrameId, tauRange, timeMin, timeMax, ev, ft, ph>>

\* Math.max(10, Math.min(1000, range))
SetTauRange ==
    /\ \E range \in TauRanges :
          tauRange' = IF range > Num(1000) THEN Num(1000)
                      ELSE IF range < Num(10) THEN Num(10) ELSE range
    /\ lastAct' = [NoAct EXCEPT !.edits = lastAct.edits]
    /\ UNCHANGED <<particles, activeReferenceFrameId, animationTime, timeMin, timeMax, ev, ft, ph>>

Next ==
    \/ AddParticle
    \/ RemoveParticle
    \/ UpdateParticleName
    \/ UpdateParticleColor
    \/ UpdateParticleInput
    \/ UpdateParticleInitialConditions
    \/ SetActiveReferenceFrame
    \/ SetAnimationTime
    \/ SetTauRange

Spec == Init /\ [][Next]_vars

Triple(p) == <<p.positionExpr, p.velocityExpr, p.accelerationExpr>>

\* the solver's output for the primary input and initial conditions p stores
SolveStored(p) ==
    SolveInput(inputTypeOf(p), inputValueOf(p), p.initialVelocity, p.initialPosition)

\* C1: when the solver throws during updateParticleInput or
\* updateParticleInitialConditions, the step completes and leaves every
\* particle's positionExpr, velocityExpr and accelerationExpr as they were.
C1_AllOrNothing ==
    [][(lastAct'.edits # lastAct.edits /\ lastAct'.thrown)
          => /\ Len(particles') = Len(particles)
             /\ \A i \in 1..Len(particles) : Triple(particles'[i]) = Triple(particles[i])]_vars

\* a throwing updateParticleInitialConditions on a particle that still holds
\* the triple of a default particle
C1_Witness ==
    /\ lastAct.thrown
    /\ lastAct.op = "updateParticleInitialConditions"
    /\ \E i \in 1..Len(particles) :
          /\ particles[i].id = lastAct.id
          /\ particles[i].initialPosition # <<0, 0, 0, 0>>
          /\ Triple(particles[i]) = Triple(createDefaultParticle("a", "#ef4444"))

DefinedInputs(p) ==
    {f \in {"inputPosition", "inputVelocity", "inputAcceleration"} : p[f] # Undefined}

\* C3: every particle has exactly one of inputPosition, inputVelocity and
\* inputAcceleration defined, also after an update whose solver step failed.
C3_ExactlyOnePrimary ==
    \A i \in 1..Len(particles) : Cardinality(DefinedInputs(particles[i])) = 1

\* a failed switch to a velocity primary: the velocity field alone is defined
C3_Witness ==
    /\ lastAct.thrown
    /\ lastAct.op = "updateParticleInput"
    /\ \E i \in 1..Len(particles) :
          /\ particles[i].id = lastAct.id
          /\ DefinedInputs(particles[i]) = {"inputVelocity"}

(***************************************************************************)
(* CAUSALITY SWEEP AND THE TWO VIEWS.  The views are functions of the      *)
(* store state; the 2D view is modelled for activeDimension = 'x'.         *)
(***************************************************************************)
SweepFrom == 0 - 50
SweepTo == 50
Eps6Floor == Scale \div 1000000        \* |x| > 1e-6 iff |x| > Eps6Floor on the grid
SpeedLimit == DecFloor(105, 100)       \* 1.05

\* one pass of the loop without the isNaN(v2) test
FlagsAt_noNaN(velocityExpr, tau) ==
    LET U == evaluateVectorAtTau(velocityExpr, Num(tau))
        v2 == FDiv(FAdd(FAdd(FMul(U[2], U[2]), FMul(U[3], U[3])), FMul(U[4], U[4])),
                   FMul(U[1], U[1]))
    IN  IF FLt(FAbs(U[1]), Eps6)
        THEN \/ FGt(FAbs(U[2]), Eps6Floor) \/ FGt(FAbs(U[3]), Eps6Floor)
             \/ FGt(FAbs(U[4]), Eps6Floor)
        ELSE FGt(v2, SpeedLimit)

\* one pass of the loop of checkCausalityViolation: does it return true at tau
FlagsAt(velocityExpr, tau) ==
    LET U == evaluateVectorAtTau(velocityExpr, Num(tau))
        v2 == FDiv(FAdd(FAdd(FMul(U[2], U[2]), FMul(U[3], U[3])), FMul(U[4], U[4])),
                   FMul(U[1], U[1]))
    IN  IF FLt(FAbs(U[1]), Eps6)
        THEN \/ FGt(FAbs(U[2]), Eps6Floor) \/ FGt(FAbs(U[3]), Eps6Floor)
             \/ FGt(FAbs(U[4]), Eps6Floor)
        ELSE FGt(v2, SpeedLimit) \/ IsNaN(v2)

\* the loop returns true at the first flagged tau and false when none is
checkCausalityViolation(velocityExpr) ==
    \E tau \in SweepFrom..SweepTo : FlagsAt(velocityExpr, tau)

\* ControlPanel: the FTL tag of a particle card
isFTL(p) == checkCausalityViolation(p.velocityExpr)

\* comp.includes('tau') on an expression in the engine's canonical text
IncludesTau(e) == e.k \in {"rpow", "sqrt", "exp"} \/ (e.k = "poly" /\ Len(e.c) > 1)

\* 0.99999 = 1 - 1e-5: v2 >= 0.99999 iff v2 >= NearLight on the grid
NearLight == Scale - (Scale \div 100000)
RestFrame(X_origin, tau) == [Lambda |-> getLorentzBoostMatrix(<<0, 0, 0>>),
                             X_origin |-> X_origin, tau |-> tau]

\* the frame of every particle taken for boost-only, its origin never computed
MCRF_boostOnly(ps, frameId, t) ==
    IF frameId = "Lab" \/ frameId \notin IdsOf(ps) THEN RestFrame(ZeroVec, 0)
    ELSE LET frameParticle == ps[CHOOSE i \in 1..Len(ps) :
                                    /\ ps[i].id = frameId
                                    /\ \A j \in 1..(i - 1) : ps[j].id # frameId]
             U == evaluateVectorAtTau(frameParticle.velocityExpr, 0)
             v3 == <<FDiv(U[2], U[1]), FDiv(U[3], U[1]), FDiv(U[4], U[1])>>
             v2 == FAdd(FAdd(FMul(v3[1], v3[1]), FMul(v3[2], v3[2])), FMul(v3[3], v3[3]))
         IN  IF FLt(FAbs(U[1]), Eps5) THEN RestFrame(ZeroVec, 0)
             ELSE IF FGe(v2, NearLight) THEN RestFrame(ZeroVec, 0)
             ELSE [Lambda |-> getLorentzBoostMatrix(v3), X_origin |-> ZeroVec, tau |-> 0]

\* the frame the views draw in: boost, origin event and time offset
MCRF(ps, frameId, t) ==
    IF frameId = "Lab" \/ frameId \notin IdsOf(ps) THEN RestFrame(ZeroVec, 0)
    ELSE LET frameParticle == ps[CHOOSE i \in 1..Len(ps) :
                                    /\ ps[i].id = frameId
                                    /\ \A j \in 1..(i - 1) : ps[j].id # frameId]
             isInertial == \A i \in 1..4 : ~IncludesTau(frameParticle.velocityExpr[i])
             tau == IF isInertial THEN 0 ELSE findTauForLabTime(frameParticle.positionExpr, t)
             X_origin == IF isInertial THEN ZeroVec
                         ELSE evaluateVectorAtTau(frameParticle.positionExpr, tau)
             U == evaluateVectorAtTau(frameParticle.velocityExpr, tau)
             v3 == <<FDiv(U[2], U[1]), FDiv(U[3], U[1]), FDiv(U[4], U[1])>>
             v2 == FAdd(FAdd(FMul(v3[1], v3[1]), FMul(v3[2], v3[2])), FMul(v3[3], v3[3]))
         IN  IF FLt(FAbs(U[1]), Eps5) THEN RestFrame(X_origin, tau)
             ELSE IF FGe(v2, NearLight) THEN RestFrame(X_origin, tau)
             ELSE [Lambda |-> getLorentzBoostMatrix(v3), X_origin |-> X_origin, tau |-> tau]

\* the playhead returned next to the frame
playheadTime(ps, frameId, t) ==
    IF frameId = "Lab" \/ frameId \notin IdsOf(ps) THEN t
    ELSE LET frameParticle == ps[CHOOSE i \in 1..Len(ps) :
                                    /\ ps[i].id = frameId
                                    /\ \A j \in 1..(i - 1) : ps[j].id # frameId]
             isInertial == \A i \in 1..4 : ~IncludesTau(frameParticle.velocityExpr[i])
             U == evaluateVectorAtTau(frameParticle.velocityExpr, 0)
             v3 == <<FDiv(U[2], U[1]), FDiv(U[3], U[1]), FDiv(U[4], U[1])>>
             v2 == FAdd(FAdd(FMul(v3[1], v3[1]), FMul(v3[2], v3[2])), FMul(v3[3], v3[3]))
         IN  IF isInertial
             THEN IF FLt(FAbs(U[1]), Eps5) THEN t
                  ELSE IF FGe(v2, NearLight) THEN t
                  ELSE findTauForLabTime(frameParticle.positionExpr, t)
             ELSE findTauForLabTime(frameParticle.positionExpr, t)

STEPS == 500

\* the proper times of the sampling loop, for (tau = -range; tau <= range;
\* tau += step): the i-th is -range + (i-1)*step
SweepCount(range, step) == (FSub(range, FNeg(range)) \div step) + 1
SweepTaus(range, step) ==
    [i \in 1..SweepCount(range, step) |-> FAdd(FNeg(range), FMulInt(step, i - 1))]

Worldline(p, M, range) ==
    transformWorldlineCoordinates(
        Sample(p.positionExpr, SweepTaus(range, FDivInt(FMulInt(range, 2), STEPS))),
        M.Lambda, M.X_origin, M.tau)

NoPoints == [x |-> <<>>, y |-> <<>>]
NoTrace == [drawn |-> FALSE, x |-> <<>>, y |-> <<>>, z |-> <<>>]

\* 2D trace of one particle, drawn although the sweep flags it
plotData2D_drawn(p, M, range) ==
    LET tr == Worldline(p, M, range)
        kept == SelectSeq([j \in 1..Len(tr.x) |-> j],
                          LAMBDA i : ~IsNaN(tr.x[i]) /\ ~IsNaN(tr.t[i]))
    IN  [x |-> [k \in 1..Len(kept) |-> tr.x[kept[k]]],
         y |-> [k \in 1..Len(kept) |-> tr.t[kept[k]]]]

\* SpacetimeGraph plotData, the trace of one particle: x horizontal, t vertical
plotData2D(p, M, range) ==
    IF checkCausalityViolation(p.velocityExpr) THEN NoPoints
    ELSE LET tr == Worldline(p, M, range)
             kept == SelectSeq([j \in 1..Len(tr.x) |-> j],
                          LAMBDA i : ~IsNaN(tr.x[i]) /\ ~IsNaN(tr.t[i]))
         IN  [x |-> [k \in 1..Len(kept) |-> tr.x[kept[k]]],
              y |-> [k \in 1..Len(kept) |-> tr.t[kept[k]]]]

\* the marker event of one particle in the drawing frame
MarkerEvent(p, M, t) ==
    LET particle_tau == findTauForLabTime(p.positionExpr, t)
        lab_coords == evaluateVectorAtTau(p.positionExpr, particle_tau)
    IN  [nan |-> \E i \in 1..4 : IsNaN(lab_coords[i]),
         tr |-> transformWorldlineCoordinates(
                    [t |-> <<lab_coords[1]>>, x |-> <<lab_coords[2]>>,
                     y |-> <<lab_coords[3]>>, z |-> <<lab_coords[4]>>],
                    M.Lambda, M.X_origin, M.tau)]

\* SpacetimeGraph markerData, the marker of one particle
markerData2D(p, M, t) ==
    IF checkCausalityViolation(p.velocityExpr) THEN NoPoints
    ELSE LET m == MarkerEvent(p, M, t)
         IN  IF m.nan THEN NoPoints
             ELSE IF ~IsNaN(m.tr.x[1]) /\ ~IsNaN(m.tr.t[1])
                  THEN [x |-> <<m.tr.x[1]>>, y |-> <<m.tr.t[1]>>]
                  ELSE NoPoints

\* Spacetime3DGraph plotData: the trace pushed for one particle, if any
plotData3D(p, M, range) ==
    IF checkCausalityViolation(p.velocityExpr) THEN NoTrace
    ELSE LET tr == Worldline(p, M, range)
             kept == SelectSeq([j \in 1..Len(tr.t) |-> j],
                               LAMBDA i : IsFinite(tr.x[i]) /\ IsFinite(tr.y[i])
                                          /\ IsFinite(tr.z[i]) /\ IsFinite(tr.t[i]))
         IN  [drawn |-> TRUE,
              x |-> [k \in 1..Len(kept) |-> tr.x[kept[k]]],
              y |-> [k \in 1..Len(kept) |-> tr.y[kept[k]]],
              z |-> [k \in 1..Len(kept) |-> tr.t[kept[k]]]]

\* Spacetime3DGraph markerData: the marker pushed for one particle, if any
markerData3D(p, M, t) ==
    IF checkCausalityViolation(p.velocityExpr) THEN NoTrace
    ELSE LET m == MarkerEvent(p, M, t)
         IN  IF m.nan THEN NoTrace
             ELSE IF IsFinite(m.tr.x[1]) /\ IsFinite(m.tr.y[1]) /\ IsFinite(m.tr.t[1])
                  THEN [drawn |-> TRUE, x |-> <<m.tr.x[1]>>, y |-> <<m.tr.y[1]>>,
                        z |-> <<m.tr.t[1]>>]
                  ELSE NoTrace

(***************************************************************************)
(* SpecView: the store driven with worldlines that the causality sweep     *)
(* flags and worldlines it passes, seen through both views.                *)
(***************************************************************************)
\* ['1', '1/tau', '0', '0'], ['tau', '2*tau', '0', '0'], ['2*tau', 'tau', '0', '0']
ViewInputs == {<<Poly(<<1>>), RPow(<<0>>, 0), Zero, Zero>>,
               <<Poly(<<0, 1>>), Poly(<<0, 2>>), Zero, Zero>>,
               <<Poly(<<0, 2>>), Poly(<<0, 1>>), Zero, Zero>>}
ViewInputTypes == {"position", "velocity"}

\* updateParticleInput from the particle card, with the inputs above
EditWorldline ==
    /\ \E k \in 1..Len(particles), inputType \in ViewInputTypes, input \in ViewInputs :
          LET p == particles[k]
              sol == SolveInput(inputType, input, p.initialVelocity, p.initialPosition)
          IN  /\ particles' = [i \in 1..Len(particles) |->
                    IF particles[i].id = p.id
                    THEN updateParticleInput(particles[i], inputType, input)
                    ELSE particles[i]]
              /\ lastAct' = [op |-> "updateParticleInput", id |-> p.id, thrown |-> sol.thrown,
                             edits |-> lastAct.edits]
    /\ UNCHANGED <<activeReferenceFrameId, animationTime, tauRange, timeMin, timeMax, ev, ft, ph>>

NextView ==
    \/ AddParticle
    \/ EditWorldline
    \/ SetActiveReferenceFrame
    \/ SetAnimationTime
    \/ SetTauRange

\* the store's initial state, the generated id being "a"
InitView == Init /\ particles[1].id = "a"

SpecView == InitView /\ [][NextView]_vars

\* the frame both views draw in, in the current state
ActiveMCRF == MCRF(particles, activeReferenceFrameId, animationTime)

\* C10: in every state, a particle whose velocity the causality sweep flags is
\* tagged FTL on its card, and neither view draws it: its 2D trace and marker
\* have no points, and no 3D trace or marker is produced for it, whatever the
\* active reference frame, the animation time and the sweep range.
C10_FTLNotRendered ==
    \A i \in 1..Len(particles) :
        LET p == particles[i]
        IN  checkCausalityViolation(p.velocityExpr) =>
               /\ isFTL(p)
               /\ plotData2D(p, ActiveMCRF, tauRange) = NoPoints
               /\ markerData2D(p, ActiveMCRF, animationTime) = NoPoints
               /\ plotData3D(p, ActiveMCRF, tauRange) = NoTrace
               /\ markerData3D(p, ActiveMCRF, animationTime) = NoTrace

\* a flagged particle is in the store while the views draw in the frame of a
\* moving particle at a nonzero animation time
C10_Witness ==
    /\ Len(particles) = 2
    /\ checkCausalityViolation(particles[1].velocityExpr)
    /\ ~checkCausalityViolation(particles[2].velocityExpr)
    /\ activeReferenceFrameId = particles[2].id
    /\ ActiveMCRF.Lambda # Identity4
    /\ animationTime # 0
    /\ lastAct.op = "updateParticleInput"
    /\ plotData2D(particles[1], ActiveMCRF, tauRange) = NoPoints

(***************************************************************************)
(* BOOST ALGEBRA: boosts composed with their inverses, and intervals       *)
(* compared before and after a boost (the integrity checks of the physics  *)
(* test script).                                                           *)
(***************************************************************************)
\* Check 4's multiply: res[i][j] is the sum over k of A[i][k] * B[k][j], from 0
RECURSIVE DotSum(_, _, _, _, _)
DotSum(A, B, i, j, k) ==
    IF k = 0 THEN 0 ELSE FAdd(DotSum(A, B, i, j, k - 1), FMul(A[i][k], B[k][j]))

multiply(A, B) == [i \in 1..4 |-> [j \in 1..4 |-> DotSum(A, B, i, j, 4)]]

Negated(v3) == <<FNeg(v3[1]), FNeg(v3[2]), FNeg(v3[3])>>

calculateIntervalSquared(event1, event2) ==
    magnitudeSquared([i \in 1..4 |-> FSub(event2[i], event1[i])])

\* a product, quotient or square root that the number grid holds without rounding
MulExact(a, b) ==
    /\ IsFinite(a) /\ IsFinite(b) /\ IsFinite(FMul(a, b))
    /\ ((FAbs(a) % Scale) * (FAbs(b) % Scale)) % Scale = 0
DivExact(a, b) ==
    /\ IsFinite(a) /\ IsFinite(b) /\ IsFinite(FDiv(a, b))
    /\ MulExact(FDiv(a, b), b) /\ FMul(FDiv(a, b), b) = a
SqrtExact(a) == IsFinite(FSqrt(a)) /\ MulExact(FSqrt(a), FSqrt(a)) /\ Sq(FSqrt(a)) = a

\* every operation of getLorentzBoostMatrix(v3) is carried out without rounding
ExactBoost(v3) ==
    LET v2 == SpeedSquared(v3)
        gamma == calculateGamma(v3)
    IN  /\ \A i \in 1..3 : MulExact(v3[i], v3[i])
        /\ FLt(v2, One)
        /\ FLt(v2, Eps10) \/
              /\ SqrtExact(FSub(One, v2))
              /\ DivExact(One, FSqrt(FSub(One, v2)))
              /\ \A i \in 1..3 : MulExact(gamma, v3[i])
              /\ \A i, j \in 1..3 :
                    /\ MulExact(v3[i], v3[j])
                    /\ MulExact(FSub(gamma, One), FMul(v3[i], v3[j]))
                    /\ DivExact(FMul(FSub(gamma, One), FMul(v3[i], v3[j])), v2)

ExactProduct(A, B) == \A i, j, k \in 1..4 : MulExact(A[i][k], B[k][j])
ExactApply(Lambda, V) == \A i, j \in 1..4 : MulExact(Lambda[i][j], V[j])
ExactSquares(V) == \A i \in 1..4 : MulExact(V[i], V[i])

\* every diagonal entry within 1e-10 of 1, every other entry within 1e-10 of 0
\* (on the number grid a deviation is within 1e-10 iff it is below Eps10)
IsIdentityWithin(P) ==
    \A i, j \in 1..4 : FLt(FAbs(FSub(P[i][j], Identity4[i][j])), Eps10)

(***************************************************************************)
(* SpecBoost: one run of a boost check.  "reverse" multiplies the boost of *)
(* v3 by the boost of -v3; "interval" boosts two events; "null" boosts a   *)
(* vector again and again, each time by a sub-luminal velocity.            *)
(***************************************************************************)
MaxBoosts == 2

\* 0.6, 0.36, 0.48, 0.3, 0.4, 0.5, 0.8 and 0.999975 in grid units
BoostV3 ==
    {<<0, 0, 0>>, <<24000, 0, 0>>, <<0, 0 - 24000, 0>>, <<14400, 19200, 0>>,
     <<0 - 14400, 0, 19200>>, <<12000, 16000, 20000>>, <<20000, 0, 0>>,
     <<32000, 0, 0>>, <<39999, 0, 0>>}

BoostEvents ==
    {<<Num(2), Num(5), Num(0 - 1), Num(3)>>, <<Num(8), Num(1), Num(4), 0>>,
     <<0, 0, 0, 0>>, <<Num(5), Num(4), Num(3), 0>>, <<Num(150), Num(150), 0, 0>>}

NullVectors ==
    {<<One, One, 0, 0>>, <<Num(5), Num(3), Num(4), 0>>, <<Num(5), Num(4), Num(3), 0>>}

BoostCall(op, v3, X1, X2) ==
    [pc |-> "call", op |-> op, v3 |-> v3, X1 |-> X1, X2 |-> X2,
     Y1 |-> X1, Y2 |-> X2, prod |-> Identity4, boosts |-> 0, exact |-> TRUE]

InitBoost ==
    /\ particles = <<>>
    /\ activeReferenceFrameId = "Lab"
    /\ animationTime = 0
    /\ tauRange = Num(50)
    /\ timeMin = Num(0 - 10)
    /\ timeMax = Num(10)
    /\ lastAct = NoAct
    /\ ev = EvIdle
    /\ ft = FtIdle
    /\ \/ \E v3 \in BoostV3 : ph = BoostCall("reverse", v3, ZeroVec, ZeroVec)
       \/ \E v3 \in BoostV3, X1, X2 \in BoostEvents : ph = BoostCall("interval", v3, X1, X2)
       \/ \E P \in NullVectors : ph = BoostCall("null", <<0, 0, 0>>, P, ZeroVec)

\* Check 4: L1 * L2 for beta and neg_beta
Reverse ==
    /\ ph.pc = "call" /\ ph.op = "reverse"
    /\ ph' = [ph EXCEPT !.pc = "done",
                        !.prod = multiply(getLorentzBoostMatrix(ph.v3),
                                          getLorentzBoostMatrix(Negated(ph.v3)))]
    /\ UNCHANGED <<particles, activeReferenceFrameId, animationTime, tauRange, timeMin,
                    timeMax, lastAct, ev, ft>>

\* Check 3: both events through the same boost
BoostPair ==
    /\ ph.pc = "call" /\ ph.op = "interval"
    /\ ph' = [ph EXCEPT !.pc = "done",
                        !.Y1 = applyLorentzTransformation(getLorentzBoostMatrix(ph.v3), ph.X1),
                        !.Y2 = applyLorentzTransformation(getLorentzBoostMatrix(ph.v3), ph.X2)]
    /\ UNCHANGED <<particles, activeReferenceFrameId, animationTime, tauRange, timeMin,
                    timeMax, lastAct, ev, ft>>

\* Check 5: one more boost of the vector, by any velocity below the speed of
\* light; exact records whether every operation so far was free of rounding
BoostAgain ==
    /\ ph.op = "null" /\ ph.boosts < MaxBoosts
    /\ \E v3 \in BoostV3 :
          /\ FLt(SpeedSquared(v3), One)
          /\ ph' = [ph EXCEPT
                      !.pc = "done", !.v3 = v3, !.boosts = ph.boosts + 1,
                      !.Y1 = applyLorentzTransformation(getLorentzBoostMatrix(v3), ph.Y1),
                      !.exact = /\ ph.exact /\ ExactBoost(v3)
                                /\ ExactApply(getLorentzBoostMatrix(v3), ph.Y1)]
    /\ UNCHANGED <<particles, activeReferenceFrameId, animationTime, tauRange, timeMin,
                    timeMax, lastAct, ev, ft>>

NextBoost == Reverse \/ BoostPair \/ BoostAgain

SpecBoost == InitBoost /\ [][NextBoost]_vars

Separation(event1, event2) == [i \in 1..4 |-> FSub(event2[i], event1[i])]

\* within 1e-6 (on the number grid: below Eps6)
Within6(a, b) == FLt(FAbs(FSub(a, b)), Eps6)

SolveExprs ==
    {Zero, Blank, Poly(<<3>>), Poly(<<0, 1>>), Poly(<<2, 0, 1>>), Poly(<<1, 0>>),
     SqrtE(<<0>>, 0), ExpE(<<0>>), RPow(<<0>>, 0), Bad}
SolveConstants == {0, 1, 0 - 2, 7}
SolveVectors ==
    {<<Poly(<<1>>), Zero, Zero, Zero>>,
     <<ExpE(<<0>>), Poly(<<0, 1>>), Blank, Zero>>,
     <<Poly(<<2, 0, 1>>), SqrtE(<<0>>, 0), Poly(<<3>>), ExpE(<<1>>)>>,
     <<Poly(<<0, 1>>), RPow(<<0>>, 0), Zero, Zero>>,
     <<Poly(<<0, 1>>), Zero, Bad, Zero>>}
SolvePositions == {<<0, 0, 0, 0>>, <<3, 0 - 1, 2, 5>>}
SolveVelocities == {<<1, 0, 0, 0>>, <<2, 1, 0, 0 - 4>>}

NoSolution == [thrown |-> FALSE, X |-> <<>>, U |-> <<>>, A |-> <<>>]
SolveCall(op, expr, constant, V, U0, X0) ==
    [pc |-> "call", op |-> op, expr |-> expr, constant |-> constant, V |-> V,
     U0 |-> U0, X0 |-> X0, out |-> Zero, sol |-> NoSolution]

InitSolve ==
    /\ particles = <<>>
    /\ activeReferenceFrameId = "Lab"
    /\ animationTime = 0
    /\ tauRange = Num(50)
    /\ timeMin = Num(0 - 10)
    /\ timeMax = Num(10)
    /\ lastAct = NoAct
    /\ ft = FtIdle
    /\ ph = PhIdle
    /\ \/ \E expr \in SolveExprs, constant \in SolveConstants :
             ev = SolveCall("integrate", expr, constant, <<>>, <<>>, <<>>)
       \/ \E U \in SolveVectors, X0 \in SolvePositions :
             ev = SolveCall("velocity", Zero, 0, U, <<>>, X0)
       \/ \E A \in SolveVectors, U0 \in SolveVelocities, X0 \in SolvePositions :
             ev = SolveCall("acceleration", Zero, 0, A, U0, X0)

Integrate ==
    /\ ev.pc = "call" /\ ev.op = "integrate"
    /\ ev' = [ev EXCEPT !.pc = "done", !.out = integrateSymbolic(ev.expr, ev.constant)]
    /\ UNCHANGED <<particles, activeReferenceFrameId, animationTime, tauRange, timeMin,
                    timeMax, lastAct, ft, ph>>

SolveVelocity ==
    /\ ev.pc = "call" /\ ev.op = "velocity"
    /\ ev' = [ev EXCEPT !.pc = "done", !.sol = solveFromVelocity(ev.V, ev.X0)]
    /\ UNCHANGED <<particles, activeReferenceFrameId, animationTime, tauRange, timeMin,
                    timeMax, lastAct, ft, ph>>

SolveAcceleration ==
    /\ ev.pc = "call" /\ ev.op = "acceleration"
    /\ ev' = [ev EXCEPT !.pc = "done", !.sol = solveFromAcceleration(ev.V, ev.U0, ev.X0)]
    /\ UNCHANGED <<particles, activeReferenceFrameId, animationTime, tauRange, timeMin,
                    timeMax, lastAct, ft, ph>>

NextSolve == Integrate \/ SolveVelocity \/ SolveAcceleration

SpecSolve == InitSolve /\ [][NextSolve]_vars

\* the numeric vector of whole-number initial conditions
Numeric(X0) == [i \in 1..4 |-> Num(X0[i])]

\* C13: an expression returned by integrateSymbolic(expr, C) has the value C at
\* tau = 0; the position returned by solveFromVelocity(U, X0) evaluates to X0
\* at tau = 0; solveFromAcceleration(A, U0, X0) returns a velocity evaluating
\* to U0 and a position evaluating to X0 at tau = 0, component by component.
C13_AnchoredAtZero ==
    /\ (ev.op = "integrate" /\ ev.pc = "done" /\ ev.out # Throw)
          => EvalComponent(ev.out, 0) = Num(ev.constant)
    /\ (ev.op = "velocity" /\ ev.pc = "done" /\ ~ev.sol.thrown)
          => evaluateVectorAtTau(ev.sol.X, 0) = Numeric(ev.X0)
    /\ (ev.op = "acceleration" /\ ev.pc = "done" /\ ~ev.sol.thrown)
          => /\ evaluateVectorAtTau(ev.sol.U, 0) = Numeric(ev.U0)
             /\ evaluateVectorAtTau(ev.sol.X, 0) = Numeric(ev.X0)

\* exp(tau) among the components of an acceleration, integrated twice from
\* nonzero initial conditions
C13_Witness ==
    /\ ev.op = "acceleration" /\ ev.pc = "done" /\ ~ev.sol.thrown
    /\ ev.V[1] = ExpE(<<0>>)
    /\ ev.U0 = <<2, 1, 0, 0 - 4>> /\ ev.X0 = <<3, 0 - 1, 2, 5>>
    /\ ev.sol.U[1] = ExpE(<<1>>)
    /\ evaluateVectorAtTau(ev.sol.X, 0) = Numeric(ev.X0)

(***************************************************************************)
(* CONSTANT SUBSTITUTION (engine/cas.ts).  Here an expression is the text  *)
(* the user typed: a sequence of one-character strings.                    *)
(***************************************************************************)
Letters == {"a", "b", "c", "g", "h", "i", "k", "o", "p", "r", "s", "t", "u"}
Digits == {"0", "1", "2", "3", "5", "6", "8", "9"}

\* \w of the regular expression: a letter, a digit or the underscore
IsWordChar(ch) == ch \in Letters \cup Digits \cup {"_"}

\* Object.entries(CONSTANTS) sorted by name length, longest first (the sort is
\* stable: c stays before g)
SortedConstants ==
    <<[name |-> <<"h", "b", "a", "r">>, value |-> <<"1">>],
      [name |-> <<"p", "h", "i">>,
       value |-> <<"1", ".", "6", "1", "8", "0", "3", "3", "9", "8", "8", "7">>],
      [name |-> <<"k", "b">>, value |-> <<"1">>],
      [name |-> <<"c">>, value |-> <<"1">>],
      [name |-> <<"g">>, value |-> <<"9", ".", "8", "0", "6", "6", "5">>]>>

\* the name occurs in str at index i
OccursAt(str, i, name) ==
    /\ i + Len(name) - 1 <= Len(str)
    /\ SubSeq(str, i, i + Len(name) - 1) = name

\* \bname\b matches at index i: no word character on either side
WordMatchAt(str, i, name) ==
    /\ OccursAt(str, i, name)
    /\ i = 1 \/ ~IsWordChar(str[i - 1])
    /\ i + Len(name) > Len(str) \/ ~IsWordChar(str[i + Len(name)])

\* result.replace(regex, `(${value})`) from index i on: the matches from left
\* to right, none overlapping
RECURSIVE ReplaceFrom(_, _, _, _)
ReplaceFrom(str, i, name, value) ==
    IF i > Len(str) THEN <<>>
    ELSE IF WordMatchAt(str, i, name)
         THEN <<"(">> \o value \o <<")">> \o ReplaceFrom(str, i + Len(name), name, value)
         ELSE <<str[i]>> \o ReplaceFrom(str, i + 1, name, value)

\* the loop over the sorted constants, from the k-th on
RECURSIVE SubstituteFrom(_, _)
SubstituteFrom(result, k) ==
    IF k > Len(SortedConstants) THEN result
    ELSE SubstituteFrom(
            ReplaceFrom(result, 1, SortedConstants[k].name, SortedConstants[k].value), k + 1)

substituteConstants(expr) == SubstituteFrom(expr, 1)

(***************************************************************************)
(* SpecSubst: one call of substituteConstants on a text put together from  *)
(* up to three pieces.                                                     *)
(***************************************************************************)
SubstPieces ==
    {<<>>, <<"c">>, <<"g">>, <<"h", "b", "a", "r">>, <<"k", "b">>, <<"p", "h", "i">>,
     <<"o", "s", "h">>, <<"2">>, <<"+">>, <<"_">>, <<"(", "t", "a", "u", ")">>}

SubstCall(expr) == [pc |-> "call", op |-> "substitute", expr |-> expr, out |-> <<>>]

InitSubst ==
    /\ particles = <<>>
    /\ activeReferenceFrameId = "Lab"
    /\ animationTime = 0
    /\ tauRange = Num(50)
    /\ timeMin = Num(0 - 10)
    /\ timeMax = Num(10)
    /\ lastAct = NoAct
    /\ ft = FtIdle
    /\ ph = PhIdle
    /\ \E a, b, c \in SubstPieces : ev = SubstCall(a \o b \o c)

Substitute ==
    /\ ev.pc = "call" /\ ev.op = "substitute"
    /\ ev' = [ev EXCEPT !.pc = "done", !.out = substituteConstants(ev.expr)]
    /\ UNCHANGED <<particles, activeReferenceFrameId, animationTime, tauRange, timeMin,
                    timeMax, lastAct, ft, ph>>

NextSubst == Substitute

SpecSubst == InitSubst /\ [][NextSubst]_vars

\* the name stands at index i as a whole token of the expression: an
\* identifier ends with it, and begins with it once the digits of a number
\* written directly before it (as in 2c) are set apart
TokenAt(str, i, name) ==
    /\ OccursAt(str, i, name)
    /\ i + Len(name) > Len(str) \/ ~IsWordChar(str[i + Len(name)])
    /\ \A j \in 1..(i - 1) :
          (\A m \in j..(i - 1) : IsWordChar(str[m])) => str[j] \in Digits

RECURSIVE TokenReplaceFrom(_, _, _, _)
TokenReplaceFrom(str, i, name, value) ==
    IF i > Len(str) THEN <<>>
    ELSE IF TokenAt(str, i, name)
         THEN <<"(">> \o value \o <<")">> \o TokenReplaceFrom(str, i + Len(name), name, value)
         ELSE <<str[i]>> \o TokenReplaceFrom(str, i + 1, name, value)

RECURSIVE TokenSubstituteFrom(_, _)
TokenSubstituteFrom(result, k) ==
    IF k > Len(SortedConstants) THEN result
    ELSE TokenSubstituteFrom(
            TokenReplaceFrom(result, 1, SortedConstants[k].name, SortedConstants[k].value),
            k + 1)

\* C14 as stated: every occurrence of a constant name that stands as a whole
\* token is replaced by its parenthesised value, no occurrence inside a longer
\* identifier or function name is altered, and every other character is left
\* unchanged.
C14_AsStated ==
    (ev.op = "substitute" /\ ev.pc = "done")
        => ev.out = TokenSubstituteFrom(ev.expr, 1)

(***************************************************************************)
(* VECTOR INPUT (components/TimeSlider.tsx, VectorInput; ControlPanel in   *)
(* components/Spacetime3DGraph.tsx).  SpecInput: the four fields of the    *)
(* VectorInput of one particle, the store behind its onChange, and the     *)
(* kind buttons above it.  ev holds the component's state, localValues and *)
(* errors, and the vector last passed to updateParticleInput.              *)
(***************************************************************************)
\* nerdamer(substituteConstants(expr)) raises on a string it cannot parse
validateExpression(expr) == expr.k # "bad"

\* what is typed into a field: tau, 1/ (no parse), 0
FieldTexts == {Poly(<<0, 1>>), Bad, Zero}
\* the fields that are edited and left: t and x
EditedFields == {1, 2}

InputOf(p) == [pc |-> "input", op |-> "mount", localValues |-> inputValueOf(p),
               errors |-> <<FALSE, FALSE, FALSE, FALSE>>, passed |-> Undefined]

InitInput ==
    /\ particles = <<createDefaultParticle("a", "#ef4444")>>
    /\ activeReferenceFrameId = "Lab"
    /\ animationTime = 0
    /\ tauRange = Num(50)
    /\ timeMin = Num(0 - 10)
    /\ timeMax = Num(10)
    /\ lastAct = NoAct
    /\ ev = InputOf(particles[1])
    /\ ft = FtIdle
    /\ ph = PhIdle

\* handleChange(index, val)
HandleChange ==
    /\ ev.pc = "input"
    /\ \E index \in EditedFields, val \in FieldTexts :
          ev' = [ev EXCEPT !.op = "change", !.localValues[index] = val]
    /\ UNCHANGED <<particles, activeReferenceFrameId, animationTime, tauRange, timeMin,
                    timeMax, lastAct, ft, ph>>

\* handleBlur(index): the error flag of the field, then onChange(localValues)
\* = updateParticleInput(p.id, inputType, localValues) when the field is
\* valid and differs from the stored value; the effect on [value] then sets
\* localValues to the stored vector
HandleBlur ==
    /\ ev.pc = "input"
    /\ \E index \in EditedFields :
          LET p == particles[1]
              value == inputValueOf(p)
              expr == ev.localValues[index]
              isValid == validateExpression(expr)
              q == updateParticleInput(p, inputTypeOf(p), ev.localValues)
          IN  IF isValid /\ value[index] # expr
              THEN /\ particles' = <<q>>
                   /\ ev' = [ev EXCEPT !.op = "blur", !.errors[index] = ~isValid,
                                       !.passed = ev.localValues,
                                       !.localValues = inputValueOf(q)]
              ELSE /\ particles' = particles
                   /\ ev' = [ev EXCEPT !.op = "blur", !.errors[index] = ~isValid]
    /\ UNCHANGED <<activeReferenceFrameId, animationTime, tauRange, timeMin, timeMax, lastAct,
                    ft, ph>>

\* a kind button: updateParticleInput(p.id, type, inputValue); localValues
\* follow the stored vector
SwitchKind ==
    /\ ev.pc = "input"
    /\ \E type \in InputTypes :
          LET p == particles[1]
              q == updateParticleInput(p, type, inputValueOf(p))
          IN  /\ particles' = <<q>>
              /\ ev' = [ev EXCEPT !.op = "kind", !.passed = inputValueOf(p),
                                  !.localValues = inputValueOf(q)]
    /\ UNCHANGED <<activeReferenceFrameId, animationTime, tauRange, timeMin, timeMax, lastAct,
                    ft, ph>>

NextInput == HandleChange \/ HandleBlur \/ SwitchKind

SpecInput == InitInput /\ [][NextInput]_vars

AllValid(V) == \A i \in 1..4 : validateExpression(V[i])

\* C15 as stated: whatever is edited and blurred in the four fields, no
\* component that fails validateExpression is passed to updateParticleInput,
\* stored in a particle's primary input, or held in the triple the numeric
\* evaluator reads.
C15_AsStated ==
    ev.pc = "input" =>
        /\ ev.passed # Undefined => AllValid(ev.passed)
        /\ \A i \in 1..Len(particles) :
              /\ AllValid(inputValueOf(particles[i]))
              /\ AllValid(particles[i].positionExpr)
              /\ AllValid(particles[i].velocityExpr)
              /\ AllValid(particles[i].accelerationExpr)

(***************************************************************************)
(* SpecFrame: the store with the edits that decide the drawing frame: the  *)
(* worldline of a particle, the reference frame and the animation time.    *)
(***************************************************************************)
\* ['2*tau', '4*tau', '0', '0'], ['2*tau', 'tau', '0', '0'], ['1', '0', '0', '0'],
\* ['2*tau', 'tau^2/2', '0', '0'], ['tau', '1', '0', '0']
FrameInputs == {<<Poly(<<0, 2>>), Poly(<<0, 4>>), Zero, Zero>>,
                <<Poly(<<0, 2>>), Poly(<<0, 1>>), Zero, Zero>>,
                <<Poly(<<1>>), Zero, Zero, Zero>>,
                <<Poly(<<0, 2>>), Poly(<<0, 0, 1>>), Zero, Zero>>,
                <<Poly(<<0, 1>>), Poly(<<1>>), Zero, Zero>>}
FrameTimes == {0, Num(1), Num(5)}

\* updateParticleInput of a position from the particle card
EditFrameParticle ==
    /\ \E k \in 1..Len(particles), input \in FrameInputs :
          LET p == particles[k]
              sol == SolveInput("position", input, p.initialVelocity, p.initialPosition)
          IN  /\ particles' = [i \in 1..Len(particles) |->
                    IF particles[i].id = p.id
                    THEN updateParticleInput(particles[i], "position", input)
                    ELSE particles[i]]
              /\ lastAct' = [op |-> "updateParticleInput", id |-> p.id, thrown |-> sol.thrown,
                             edits |-> lastAct.edits]
    /\ UNCHANGED <<activeReferenceFrameId, animationTime, tauRange, timeMin, timeMax, ev, ft, ph>>

\* setAnimationTime from the time slider
PlayTo ==
    /\ \E t \in FrameTimes : animationTime' = t
    /\ lastAct' = [NoAct EXCEPT !.edits = lastAct.edits]
    /\ UNCHANGED <<particles, activeReferenceFrameId, tauRange, timeMin, timeMax, ev, ft, ph>>

NextFrame ==
    \/ AddParticle
    \/ RemoveParticle
    \/ EditFrameParticle
    \/ SetActiveReferenceFrame
    \/ PlayTo

SpecFrame == InitView /\ [][NextFrame]_vars

ActivePlayhead == playheadTime(particles, activeReferenceFrameId, animationTime)

\* the reference particle of the views, when the frame id names one
HasFrameParticle == activeReferenceFrameId \in IdsOf(particles)
FrameParticle ==
    particles[CHOOSE i \in 1..Len(particles) : particles[i].id = activeReferenceFrameId]

Inertial(p) == \A i \in 1..4 : ~IncludesTau(p.velocityExpr[i])

\* the 3-velocity of a 4-velocity and the test that sends the frame to rest
SpatialVelocity(U) == <<FDiv(U[2], U[1]), FDiv(U[3], U[1]), FDiv(U[4], U[1])>>
FallsBack(U) ==
    \/ FLt(FAbs(U[1]), Eps5)
    \/ LET v3 == SpatialVelocity(U)
       IN  FGe(FAdd(FAdd(FMul(v3[1], v3[1]), FMul(v3[2], v3[2])), FMul(v3[3], v3[3])),
               NearLight)

\* the boost of a frame whose reference particle has 4-velocity U
BoostOf(U) ==
    IF FallsBack(U) THEN Identity4 ELSE getLorentzBoostMatrix(SpatialVelocity(U))

\* the frame of a reference particle whose velocity depends on tau
RecomputedAt(p, M, t) ==
    LET tauStar == findTauForLabTime(p.positionExpr, t)
    IN  /\ M.tau = tauStar
        /\ M.X_origin = evaluateVectorAtTau(p.positionExpr, tauStar)
        /\ M.Lambda = BoostOf(evaluateVectorAtTau(p.velocityExpr, tauStar))

\* C19 as stated: the Lab frame is the identity boost with zero origin and zero
\* offset; the frame of a reference particle whose velocity has no tau is
\* boost-only and the playhead is findTauForLabTime(position, animationTime);
\* the frame of any other reference particle has tau* =
\* findTauForLabTime(position, animationTime) for its offset, the position at
\* tau* for its origin and the boost of the velocity at tau*.
C19_AsStated ==
    IF ~HasFrameParticle
    THEN ActiveMCRF = [Lambda |-> Identity4, X_origin |-> ZeroVec, tau |-> 0]
    ELSE IF Inertial(FrameParticle)
         THEN /\ ActiveMCRF.X_origin = ZeroVec /\ ActiveMCRF.tau = 0
              /\ ActivePlayhead = findTauForLabTime(FrameParticle.positionExpr, animationTime)
         ELSE RecomputedAt(FrameParticle, ActiveMCRF, animationTime)

\* C19, amended: the same, the playhead of a boost-only frame being
\* findTauForLabTime(position, animationTime) when the boost is built from the
\* velocity, and animationTime itself when the frame falls back to the identity
\* boost (|U0| < 1e-5 or v2 >= 0.99999).
C19_FrameSelection ==
    IF ~HasFrameParticle
    THEN ActiveMCRF = [Lambda |-> Identity4, X_origin |-> ZeroVec, tau |-> 0]
    ELSE IF Inertial(FrameParticle)
         THEN /\ ActiveMCRF.X_origin = ZeroVec /\ ActiveMCRF.tau = 0
              /\ ActiveMCRF.Lambda = BoostOf(evaluateVectorAtTau(FrameParticle.velocityExpr, 0))
              /\ ActivePlayhead =
                    IF FallsBack(evaluateVectorAtTau(FrameParticle.velocityExpr, 0))
                    THEN animationTime
                    ELSE findTauForLabTime(FrameParticle.positionExpr, animationTime)
         ELSE RecomputedAt(FrameParticle, ActiveMCRF, animationTime)

\* the views draw in the frame of a particle whose velocity depends on tau, at
\* a nonzero animation time: the frame has a nonzero offset, a nonzero origin
\* and a boost
C19_Witness ==
    /\ HasFrameParticle
    /\ ~Inertial(FrameParticle)
    /\ animationTime # 0
    /\ ActiveMCRF.tau # 0
    /\ ActiveMCRF.X_origin # ZeroVec
    /\ ActiveMCRF.Lambda # Identity4

(***************************************************************************)
(* THE NEAR-LIGHT TEST IN MILLIONTHS.  The threshold 0.99999 of the frame  *)
(* selection, and the speeds next to it, are finer than the grid of        *)
(* 1/Scale.  Here a 4-velocity is a vector of whole numbers of millionths, *)
(* and a sum of squares is kept exactly as a pair <<hi, lo>> standing for  *)
(* hi + lo/10^6 millionths, with components up to 1.000999.                *)
(***************************************************************************)
Micro == 10 ^ 6
TinyU0 == 10                 \* 1e-5 in millionths
NearLightMicro == 999990     \* 0.99999 in millionths

AbsMicro(x) == IF x < 0 THEN 0 - x ELSE x

\* U[i] / U[0] for a U[0] of a whole number of units that divides U[i]
QuotientMicro(a, b) == a \div (b \div Micro)

SquareMicro(v) ==
    LET a == AbsMicro(v) \div 1000
        b == AbsMicro(v) % 1000
        low == 2 * a * b * 1000 + b * b
    IN  <<a * a + (low \div Micro), low % Micro>>

AddMicro(p, q) == <<p[1] + q[1] + ((p[2] + q[2]) \div Micro), (p[2] + q[2]) % Micro>>

GeMicro(p, q) == p[1] > q[1] \/ (p[1] = q[1] /\ p[2] >= q[2])

\* v3[0]*v3[0] + v3[1]*v3[1] + v3[2]*v3[2]
SpeedSquaredMicro(v3) ==
    AddMicro(AddMicro(SquareMicro(v3[1]), SquareMicro(v3[2])), SquareMicro(v3[3]))

\* the end of the frame selection without the test on v2
MCRFBoost_untested(X_origin, tau, U) ==
    IF AbsMicro(U[1]) < TinyU0
    THEN [Lambda |-> "identity", v3 |-> <<0, 0, 0>>, X_origin |-> X_origin, tau |-> tau]
    ELSE [Lambda |-> "boost",
          v3 |-> <<QuotientMicro(U[2], U[1]), QuotientMicro(U[3], U[1]),
                   QuotientMicro(U[4], U[1])>>,
          X_origin |-> X_origin, tau |-> tau]

\* the end of the frame selection, from the evaluated 4-velocity U on: the
\* frame with getLorentzBoostMatrix([0, 0, 0]) ("identity") or with
\* getLorentzBoostMatrix(v3) ("boost")
MCRFBoost(X_origin, tau, U) ==
    IF AbsMicro(U[1]) < TinyU0
    THEN [Lambda |-> "identity", v3 |-> <<0, 0, 0>>, X_origin |-> X_origin, tau |-> tau]
    ELSE LET v3 == <<QuotientMicro(U[2], U[1]), QuotientMicro(U[3], U[1]),
                     QuotientMicro(U[4], U[1])>>
             v2 == SpeedSquaredMicro(v3)
         IN  IF GeMicro(v2, <<NearLightMicro, 0>>)
             THEN [Lambda |-> "identity", v3 |-> <<0, 0, 0>>, X_origin |-> X_origin,
                   tau |-> tau]
             ELSE [Lambda |-> "boost", v3 |-> v3, X_origin |-> X_origin, tau |-> tau]

(***************************************************************************)
(* SpecGate: one frame selection from an evaluated 4-velocity on.          *)
(***************************************************************************)
\* U0: 0, 5e-6, 1, 2
GateU0 == {0, 5, Micro, 2 * Micro}
\* the x and y components of U / U0
GateVx == {0, 0 - 600000, 999989, 999990, 999992, 999994, 999995, 999996, Micro}
GateVy == {0, 1000, 800000}
GateOrigins == {<<0, 0, 0, 0>>, <<5 * Micro, Micro, 0, 0>>}

GateCall(X_origin, tau, U) ==
    [pc |-> "call", op |-> "frame", X_origin |-> X_origin, tau |-> tau, U |-> U,
     out |-> [Lambda |-> "none", v3 |-> <<0, 0, 0>>, X_origin |-> <<0, 0, 0, 0>>, tau |-> 0]]

InitGate ==
    /\ particles = <<>>
    /\ activeReferenceFrameId = "Lab"
    /\ animationTime = 0
    /\ tauRange = Num(50)
    /\ timeMin = Num(0 - 10)
    /\ timeMax = Num(10)
    /\ lastAct = NoAct
    /\ ev = EvIdle
    /\ ft = FtIdle
    /\ \E U0 \in GateU0, vx \in GateVx, vy \in GateVy, X_origin \in GateOrigins :
          LET k == IF U0 < Micro THEN 1 ELSE U0 \div Micro
          IN  ph = GateCall(X_origin, X_origin[1], <<U0, k * vx, k * vy, 0>>)

SelectBoost ==
    /\ ph.pc = "call" /\ ph.op = "frame"
    /\ ph' = [ph EXCEPT !.pc = "done", !.out = MCRFBoost(ph.X_origin, ph.tau, ph.U)]
    /\ UNCHANGED <<particles, activeReferenceFrameId, animationTime, tauRange, timeMin,
                    timeMax, lastAct, ev, ft>>

NextGate == SelectBoost

SpecGate == InitGate /\ [][NextGate]_vars

\* U / U0 of a finished call
GateVelocity(f) ==
    <<QuotientMicro(f.U[2], f.U[1]), QuotientMicro(f.U[3], f.U[1]),
      QuotientMicro(f.U[4], f.U[1])>>

\* the frame keeps the origin and the offset computed before the test
KeepsOrigin(f) == f.out.X_origin = f.X_origin /\ f.out.tau = f.tau

\* |v| >= 0.99999, as |v|^2 >= 0.99999^2
AtNearLightSpeed(v3) == GeMicro(SpeedSquaredMicro(v3), SquareMicro(NearLightMicro))

\* C20 as stated: with |U0| < 1e-5, or a spatial speed |v| of 0.99999 or more,
\* the frame has the identity boost and the origin already computed; in every
\* other case the boost is built from v = (U1, U2, U3)/U0; so no boost is built
\* for a speed of 0.99999 or more.
C20_AsStated ==
    (ph.pc = "done" /\ ph.op = "frame") =>
        /\ KeepsOrigin(ph)
        /\ IF AbsMicro(ph.U[1]) < TinyU0 \/ AtNearLightSpeed(GateVelocity(ph))
           THEN ph.out.Lambda = "identity"
           ELSE ph.out.Lambda = "boost" /\ ph.out.v3 = GateVelocity(ph)
        /\ ph.out.Lambda = "boost" => ~AtNearLightSpeed(ph.out.v3)

\* C20, amended: the same with the test on the squared speed: the frame falls
\* back when |U0| < 1e-5 or |v|^2 >= 0.99999, and no boost is built for a
\* squared speed of 0.99999 or more.
C20_NearLightFallback ==
    (ph.pc = "done" /\ ph.op = "frame") =>
        /\ KeepsOrigin(ph)
        /\ IF \/ AbsMicro(ph.U[1]) < TinyU0
              \/ GeMicro(SpeedSquaredMicro(GateVelocity(ph)), <<NearLightMicro, 0>>)
           THEN ph.out.Lambda = "identity"
           ELSE ph.out.Lambda = "boost" /\ ph.out.v3 = GateVelocity(ph)
        /\ ph.out.Lambda = "boost"
              => ~GeMicro(SpeedSquaredMicro(ph.out.v3), <<NearLightMicro, 0>>)

\* a frame with a nonzero origin fell back to the identity boost for a speed
\* below 1 whose square is 0.99999 or more
C20_Witness ==
    /\ ph.pc = "done" /\ ph.op = "frame"
    /\ ph.U[1] = 2 * Micro
    /\ ph.X_origin # <<0, 0, 0, 0>>
    /\ ~GeMicro(SpeedSquaredMicro(GateVelocity(ph)), <<Micro, 0>>)
    /\ ph.out.Lambda = "identity"
    /\ ph.out.X_origin = ph.X_origin

(***************************************************************************)
(* SpecCausality: one call of checkCausalityViolation, an action per pass  *)
(* of its loop.  ev holds the velocity, the loop variable tau, the number  *)
(* of evaluations made and the value returned.                             *)
(***************************************************************************)
\* time components: 1, tau, 0, 1/tau, sqrt(tau), exp(tau), 1/ (no parse)
CausalityTimes ==
    {Poly(<<1>>), Poly(<<0, 1>>), Zero, RPow(<<0>>, 0), SqrtE(<<0>>, 0), ExpE(<<0>>), Bad}
\* x components: 0, 1, 2, tau, exp(tau)
CausalitySpaces == {Zero, Poly(<<1>>), Poly(<<2>>), Poly(<<0, 1>>), ExpE(<<0>>)}

InitCausality ==
    /\ particles = <<>>
    /\ activeReferenceFrameId = "Lab"
    /\ animationTime = 0
    /\ tauRange = Num(50)
    /\ timeMin = Num(0 - 10)
    /\ timeMax = Num(10)
    /\ lastAct = NoAct
    /\ ft = FtIdle
    /\ ph = PhIdle
    /\ \E t \in CausalityTimes, x \in CausalitySpaces :
          ev = [pc |-> "loop", op |-> "sweep", V |-> <<t, x, Zero, Zero>>,
                tau |-> SweepFrom, evals |-> 0, result |-> FALSE]

\* one pass: evaluate at tau, return true or go on to tau + 1
CausalityPass ==
    /\ ev.pc = "loop" /\ ev.op = "sweep"
    /\ ev.tau <= SweepTo
    /\ ev' = IF FlagsAt(ev.V, ev.tau)
             THEN [ev EXCEPT !.pc = "done", !.evals = @ + 1, !.result = TRUE]
             ELSE [ev EXCEPT !.tau = @ + 1, !.evals = @ + 1]
    /\ UNCHANGED <<particles, activeReferenceFrameId, animationTime, tauRange, timeMin,
                    timeMax, lastAct, ft, ph>>

\* the loop is over: return false
CausalityEnd ==
    /\ ev.pc = "loop" /\ ev.op = "sweep"
    /\ ev.tau > SweepTo
    /\ ev' = [ev EXCEPT !.pc = "done", !.result = FALSE]
    /\ UNCHANGED <<particles, activeReferenceFrameId, animationTime, tauRange, timeMin,
                    timeMax, lastAct, ft, ph>>

NextCausality == CausalityPass \/ CausalityEnd

SpecCausality == InitCausality /\ [][NextCausality]_vars

\* the 4-velocity at an integer sample, and its 3-speed squared
\* (U1^2 + U2^2 + U3^2)/U0^2
VelocityAt(V, tau) == evaluateVectorAtTau(V, Num(tau))
SpeedSquaredOf(U) ==
    FDiv(FAdd(FAdd(FMul(U[2], U[2]), FMul(U[3], U[3])), FMul(U[4], U[4])), FMul(U[1], U[1]))

NearZeroTime(U) == FLt(FAbs(U[1]), Eps6)
SomeSpace(U) == \E i \in 2..4 : FGt(FAbs(U[i]), Eps6Floor)
TooFast(U) == FGt(SpeedSquaredOf(U), SpeedLimit) \/ IsNaN(SpeedSquaredOf(U))

\* the samples evaluated are the integers from -50 on, 101 at most
SamplesBounded ==
    /\ ev.evals <= SweepTo - SweepFrom + 1
    /\ ev.evals = ev.tau - SweepFrom + (IF ev.pc = "done" /\ ev.result THEN 1 ELSE 0)

\* C21 as stated: the result is true exactly when at some integer tau in
\* -50..50 the 4-velocity has a near-zero time component with a non-zero
\* spatial component, or a 3-speed squared above 1.05 or NaN; at most the 101
\* integer samples are evaluated.
C21_AsStated ==
    (ev.op = "sweep") =>
        /\ SamplesBounded
        /\ ev.pc = "done" =>
              (ev.result <=>
                 \E tau \in SweepFrom..SweepTo :
                    LET U == VelocityAt(ev.V, tau)
                    IN  (NearZeroTime(U) /\ SomeSpace(U)) \/ TooFast(U))

\* C21, amended: the same, the 3-speed squared being looked at only at the
\* samples whose time component is not near zero.
C21_SweepVerdict ==
    (ev.op = "sweep") =>
        /\ SamplesBounded
        /\ ev.pc = "done" =>
              (ev.result <=>
                 \E tau \in SweepFrom..SweepTo :
                    LET U == VelocityAt(ev.V, tau)
                    IN  \/ NearZeroTime(U) /\ SomeSpace(U)
                        \/ ~NearZeroTime(U) /\ TooFast(U))

\* the sweep of (tau, 1, 0, 0) returned true at tau = 0, its 51st sample: the
\* samples before it are slower than light
C21_Witness ==
    /\ ev.op = "sweep" /\ ev.pc = "done"
    /\ ev.result
    /\ ev.tau = 0 /\ ev.evals = 51
    /\ NearZeroTime(VelocityAt(ev.V, 0)) /\ SomeSpace(VelocityAt(ev.V, 0))

\* a component of the velocity raises or is NaN at the sample
Unevaluable(V, tau) ==
    \E i \in 1..4 : EvalComponent(V[i], Num(tau)) = Thrown \/ IsNaN(EvalComponent(V[i], Num(tau)))

\* C27: a sample at which the velocity cannot be evaluated is not the one that
\* makes the sweep return true, and a velocity that cannot be evaluated at any
\* of the samples is reported as non-violating: the sweep returns false and
\* the particle is not tagged FTL.
C27_FailedSamplesSkipped ==
    (ev.op = "sweep" /\ ev.pc = "done") =>
        /\ ev.result => ~Unevaluable(ev.V, ev.tau)
        /\ (\A tau \in SweepFrom..SweepTo : Unevaluable(ev.V, tau))
              => /\ ~ev.result
                 /\ ~isFTL([velocityExpr |-> ev.V])

\* the sweep of ['1/', '2', '0', '0'] went through its 101 samples, none of
\* which evaluates, and returned false
C27_Witness ==
    /\ ev.op = "sweep" /\ ev.pc = "done"
    /\ ev.V[1] = Bad /\ ev.V[2] = Poly(<<2>>)
    /\ \A tau \in SweepFrom..SweepTo : Unevaluable(ev.V, tau)
    /\ ev.evals = SweepTo - SweepFrom + 1
    /\ ~ev.result

(***************************************************************************)
(* THE TIME WINDOW (store/useSimulatorStore.ts: timeMin, timeMax).         *)
(***************************************************************************)
Tenth == DecFloor(1, 10)      \* 0.1

\* Math.min, Math.max: NaN when an argument is NaN
FMin(a, b) == IF a = NaN \/ b = NaN THEN NaN ELSE IF a < b THEN a ELSE b
FMax(a, b) == IF a = NaN \/ b = NaN THEN NaN ELSE IF a > b THEN a ELSE b

\* setTimeMin(val): the new timeMin; setTimeMax(val): the new timeMax
setTimeMin(val, mx) == FMin(val, FSub(mx, Tenth))
setTimeMax(val, mn) == FMax(val, FAdd(mn, Tenth))

(***************************************************************************)
(* SpecWindow: the store under setTimeMin and setTimeMax.                  *)
(***************************************************************************)
\* -Infinity, -20, 9.95, 10, 20, 600, the largest finite value, Infinity, NaN
WindowValues ==
    {NInf, Num(0 - 20), Num(10) - (Tenth \div 2), Num(10), Num(20), Num(600), MaxFin,
     PInf, NaN}

SetTimeMin ==
    /\ \E val \in WindowValues : timeMin' = setTimeMin(val, timeMax)
    /\ lastAct' = [NoAct EXCEPT !.op = "setTimeMin"]
    /\ UNCHANGED <<particles, activeReferenceFrameId, animationTime, tauRange, timeMax, ev, ft, ph>>

SetTimeMax ==
    /\ \E val \in WindowValues : timeMax' = setTimeMax(val, timeMin)
    /\ lastAct' = [NoAct EXCEPT !.op = "setTimeMax"]
    /\ UNCHANGED <<particles, activeReferenceFrameId, animationTime, tauRange, timeMin, ev, ft, ph>>

NextWindow == SetTimeMin \/ SetTimeMax

SpecWindow == InitView /\ [][NextWindow]_vars

\* C24 as stated: after any sequence of setTimeMin and setTimeMax calls with
\* arbitrary numeric arguments timeMax - timeMin >= 0.1; setTimeMin does not
\* change timeMax and setTimeMax does not change timeMin.
C24_AsStated ==
    /\ [](FGe(FSub(timeMax, timeMin), Tenth))
    /\ [][/\ lastAct'.op = "setTimeMin" => timeMax' = timeMax
          /\ lastAct'.op = "setTimeMax" => timeMin' = timeMin]_vars

(***************************************************************************)
(* THE TIME SLIDER (components/TimeSlider.tsx).                            *)
(* ev holds the component: isPlaying, and frame, TRUE while a callback     *)
(* requested with requestAnimationFrame is pending. A handler and the      *)
(* re-render it causes, effect cleanup included, are one step: the         *)
(* handlers run on discrete events (click, change, blur), whose effects    *)
(* React flushes before the browser runs another callback.                 *)
(***************************************************************************)
\* the cleanup of the playback effect: the pending request is cancelled
cancelAnimationFrame_leaked(frame) == frame

cancelAnimationFrame(frame) == FALSE

\* the playback effect after a render with isPlaying = playing
PlaybackEffect(wasPlaying, playing, frame) ==
    IF wasPlaying = playing THEN frame
    ELSE IF playing THEN TRUE
    ELSE cancelAnimationFrame(frame)

\* animate: the time one callback stores
animate(cur, delta, mn, mx) ==
    LET nextTime == FAdd(cur, delta)
    IN  IF FGt(nextTime, mx) THEN mn ELSE nextTime

\* seconds between two callbacks
Deltas == {Tenth, Num(4)}

\* what parseFloat makes of the text of a bound field; NaN for text that is no number
SubmitValues == {Num(0 - 20), Num(5), Num(20), NaN}

MaxSubmits == 3

InitSlider ==
    /\ particles = <<>>
    /\ activeReferenceFrameId = "Lab"
    /\ animationTime = 0
    /\ tauRange = Num(50)
    /\ timeMin = Num(0 - 10)
    /\ timeMax = Num(10)
    /\ lastAct = NoAct
    /\ ft = FtIdle
    /\ ph = PhIdle
    /\ ev = [pc |-> "slider", op |-> "none", isPlaying |-> FALSE, frame |-> FALSE,
             delta |-> 0, submits |-> 0]

\* the Play/Stop button
TogglePlay ==
    /\ ev' = [ev EXCEPT !.op = "toggle", !.isPlaying = ~ev.isPlaying,
                        !.frame = PlaybackEffect(ev.isPlaying, ~ev.isPlaying, ev.frame)]
    /\ UNCHANGED <<particles, activeReferenceFrameId, animationTime, tauRange, timeMin, timeMax,
                   lastAct, ft, ph>>

\* the reset button
ResetTime ==
    /\ animationTime' = timeMin
    /\ ev' = [ev EXCEPT !.op = "reset", !.isPlaying = FALSE,
                        !.frame = PlaybackEffect(ev.isPlaying, FALSE, ev.frame)]
    /\ UNCHANGED <<particles, activeReferenceFrameId, tauRange, timeMin, timeMax, lastAct, ft, ph>>

\* the range input, whose value lies between its min and max attributes
DragTime ==
    /\ \E v \in {timeMin, Half(FAdd(timeMin, timeMax)), timeMax} : animationTime' = v
    /\ ev' = [ev EXCEPT !.op = "drag", !.isPlaying = FALSE,
                        !.frame = PlaybackEffect(ev.isPlaying, FALSE, ev.frame)]
    /\ UNCHANGED <<particles, activeReferenceFrameId, tauRange, timeMin, timeMax, lastAct, ft, ph>>

submitMin ==
    /\ ev.submits < MaxSubmits
    /\ \E val \in SubmitValues :
          IF val # NaN
          THEN /\ timeMin' = setTimeMin(val, timeMax)
               /\ animationTime' = IF FLt(animationTime, val) THEN val ELSE animationTime
          ELSE UNCHANGED <<timeMin, animationTime>>
    /\ ev' = [ev EXCEPT !.op = "submitMin", !.submits = @ + 1]
    /\ UNCHANGED <<particles, activeReferenceFrameId, tauRange, timeMax, lastAct, ft, ph>>

submitMax ==
    /\ ev.submits < MaxSubmits
    /\ \E val \in SubmitValues :
          IF val # NaN
          THEN /\ timeMax' = setTimeMax(val, timeMin)
               /\ animationTime' = IF FGt(animationTime, val) THEN val ELSE animationTime
          ELSE UNCHANGED <<timeMax, animationTime>>
    /\ ev' = [ev EXCEPT !.op = "submitMax", !.submits = @ + 1]
    /\ UNCHANGED <<particles, activeReferenceFrameId, tauRange, timeMin, lastAct, ft, ph>>

\* a pending callback runs and requests the next one
Tick ==
    /\ ev.frame
    /\ \E delta \in Deltas :
          /\ animationTime' = animate(animationTime, delta, timeMin, timeMax)
          /\ ev' = [ev EXCEPT !.op = "tick", !.delta = delta, !.frame = TRUE]
    /\ UNCHANGED <<particles, activeReferenceFrameId, tauRange, timeMin, timeMax, lastAct, ft, ph>>

NextSlider == TogglePlay \/ ResetTime \/ DragTime \/ submitMin \/ submitMax \/ Tick

SpecSlider == InitSlider /\ [][NextSlider]_vars

\* C23 as stated: after any sequence of ticks, reset, drag, submitMin and
\* submitMax, timeMin <= animationTime <= timeMax.
C23_AsStated == FLe(timeMin, animationTime) /\ FLe(animationTime, timeMax)

\* C29: a callback runs only while playing, so after Stop, reset or a drag
\* no callback requested earlier changes animationTime; and each callback
\* stores animationTime + delta, or timeMin when that exceeds timeMax, from
\* the store's values at the time it runs.
C29_TicksOnlyWhilePlaying ==
    /\ [](ev.frame <=> ev.isPlaying)
    /\ [][ev'.op = "tick" =>
            /\ ev.isPlaying
            /\ animationTime' =
                  IF FGt(FAdd(animationTime, ev'.delta), timeMax)
                  THEN timeMin ELSE FAdd(animationTime, ev'.delta)]_vars
    /\ [][(~ev'.isPlaying /\ ev'.op \notin {"reset", "drag", "submitMin", "submitMax"})
            => animationTime' = animationTime]_vars

\* playback was stopped at a time it had advanced to, and the window wrapped before
C29_Witness ==
    /\ ev.op = "toggle"
    /\ ~ev.isPlaying
    /\ ~ev.frame
    /\ animationTime = FAdd(Num(0 - 10), Tenth)

(***************************************************************************)
(* THE ACTIVE FRAME UNDER ADD, REMOVE AND SELECT (Spec).                   *)
(***************************************************************************)
\* the ids a step removed
RemovedIds == IdsOf(particles) \ IdsOf(particles')

\* C25: the active frame is 'Lab' or the id of a current particle; removing
\* the particle of the active frame resets it to 'Lab'; removing another
\* particle leaves it unchanged.
C25_FrameNamesAParticle ==
    /\ [](activeReferenceFrameId = "Lab" \/ activeReferenceFrameId \in IdsOf(particles))
    /\ [][lastAct'.op = "removeParticle" =>
            /\ RemovedIds = {lastAct'.id}
            /\ activeReferenceFrameId' =
                  IF activeReferenceFrameId \in RemovedIds THEN "Lab"
                  ELSE activeReferenceFrameId]_vars

\* a particle was removed while another particle's frame was active
C25_Witness ==
    /\ lastAct.op = "removeParticle"
    /\ activeReferenceFrameId # "Lab"
    /\ activeReferenceFrameId # lastAct.id
    /\ activeReferenceFrameId \in IdsOf(particles)

(***************************************************************************)
(* SpecCalls: the store under calls of its four particle updaters with any *)
(* id, matching a particle or not.                                         *)
(***************************************************************************)
\* the test of the map callbacks, dropped
Matches_any(p, id) == TRUE

\* p.id === id
Matches(p, id) == p.id = id

updateParticleName(ps, id, name) ==
    [i \in 1..Len(ps) |-> IF Matches(ps[i], id) THEN [ps[i] EXCEPT !.name = name] ELSE ps[i]]

updateParticleColor(ps, id, color) ==
    [i \in 1..Len(ps) |-> IF Matches(ps[i], id) THEN [ps[i] EXCEPT !.color = color] ELSE ps[i]]

CallColors == {"#ef4444", "#3b82f6"}

\* solver-calling updates explored in one session of calls
MaxCalls == 2

CallUpdateName ==
    /\ \E id \in Ids, name \in Names :
          /\ particles' = updateParticleName(particles, id, name)
          /\ lastAct' = [NoAct EXCEPT !.op = "updateParticleName", !.id = id,
                                      !.edits = lastAct.edits]
    /\ UNCHANGED <<activeReferenceFrameId, animationTime, tauRange, timeMin, timeMax, ev, ft, ph>>

CallUpdateColor ==
    /\ \E id \in Ids, color \in CallColors :
          /\ particles' = updateParticleColor(particles, id, color)
          /\ lastAct' = [NoAct EXCEPT !.op = "updateParticleColor", !.id = id,
                                      !.edits = lastAct.edits]
    /\ UNCHANGED <<activeReferenceFrameId, animationTime, tauRange, timeMin, timeMax, ev, ft, ph>>

CallUpdateInput ==
    /\ lastAct.edits < MaxCalls
    /\ \E id \in Ids, inputType \in InputTypes, input \in InputVectors :
          /\ particles' = [i \in 1..Len(particles) |->
                IF Matches(particles[i], id)
                THEN updateParticleInput(particles[i], inputType, input)
                ELSE particles[i]]
          /\ lastAct' = [NoAct EXCEPT !.op = "updateParticleInput", !.id = id,
                                      !.edits = lastAct.edits + 1]
    /\ UNCHANGED <<activeReferenceFrameId, animationTime, tauRange, timeMin, timeMax, ev, ft, ph>>

CallUpdateInitialConditions ==
    /\ lastAct.edits < MaxCalls
    /\ \E id \in Ids, X0 \in InitialPositions \cup {Undefined},
          U0 \in InitialVelocities \cup {Undefined} :
          /\ particles' = [i \in 1..Len(particles) |->
                IF Matches(particles[i], id)
                THEN updateParticleInitialConditions(particles[i], X0, U0)
                ELSE particles[i]]
          /\ lastAct' = [NoAct EXCEPT !.op = "updateParticleInitialConditions", !.id = id,
                                      !.edits = lastAct.edits + 1]
    /\ UNCHANGED <<activeReferenceFrameId, animationTime, tauRange, timeMin, timeMax, ev, ft, ph>>

NextCalls ==
    \/ AddParticle
    \/ SetActiveReferenceFrame
    \/ CallUpdateName
    \/ CallUpdateColor
    \/ CallUpdateInput
    \/ CallUpdateInitialConditions

SpecCalls == Init /\ [][NextCalls]_vars

UpdateOps ==
    {"updateParticleName", "updateParticleColor", "updateParticleInput",
     "updateParticleInitialConditions"}

\* the fields updateParticleInput does not write
KeptByInput(p) == <<p.id, p.name, p.color, p.mass, p.initialPosition, p.initialVelocity>>

\* C30: an updater called with id i leaves every other particle, the number
\* and order of the particles and the rest of the store unchanged;
\* updateParticleInput leaves the target's id, name, color, mass,
\* initialPosition and initialVelocity unchanged; a call whose id matches no
\* particle changes nothing.
C30_OnlyTargetChanges ==
    [][lastAct'.op \in UpdateOps =>
         /\ Len(particles') = Len(particles)
         /\ \A i \in 1..Len(particles) :
               /\ particles'[i].id = particles[i].id
               /\ particles[i].id # lastAct'.id => particles'[i] = particles[i]
               /\ lastAct'.op = "updateParticleInput" =>
                     KeptByInput(particles'[i]) = KeptByInput(particles[i])
         /\ lastAct'.id \notin IdsOf(particles) => particles' = particles
         /\ UNCHANGED <<activeReferenceFrameId, animationTime, tauRange, timeMin, timeMax>>]_vars

\* updateParticleInput changed the first of two particles and not the second
C30_Witness ==
    /\ lastAct.op = "updateParticleInput"
    /\ Len(particles) = 2
    /\ lastAct.id = particles[1].id
    /\ particles[1].inputVelocity # Undefined
    /\ particles[2].inputPosition = createDefaultParticle("b", "#ef4444").inputPosition
    /\ particles[2].positionExpr = createDefaultParticle("b", "#ef4444").positionExpr

(***************************************************************************)
(* THE SPEED TEST OF validateCausality (SpecPhys).                         *)
(***************************************************************************)
\* C26 as stated: for every U with U0 >= 0 and |U.U + 1| <= 1e-4 the 3-speed
\* squared is below 1, and every invalid result carries v_squared = 0, the
\* speed test never being the one that fails.
C26_AsStated ==
    (ph.pc = "done" /\ ph.op = "validate") =>
        /\ (FGe(ph.U[1], 0) /\ FLe(FAbs(FSub(magnitudeSquared(ph.U), FNeg(One))), Tol))
              => FLt(SpeedSquared(extract3Velocity(ph.U)), One)
        /\ ~ph.verdict.isValid => ph.verdict.v_squared = 0

(***************************************************************************)
(* THE FRAME OF THE 3D VIEW (Spacetime3DGraph.tsx, the useMemo returning   *)
(* MCRF and playheadTime), branch by branch, on SpecFrame.                 *)
(***************************************************************************)
\* the 3D frame with the origin of an accelerating particle left at zero
Frame3D_fixedOrigin(ps, frameId, t) ==
    [MCRF |-> [MCRF(ps, frameId, t) EXCEPT !.X_origin = ZeroVec],
     playheadTime |-> playheadTime(ps, frameId, t)]

Frame3D(ps, frameId, t) ==
    LET Rest == getLorentzBoostMatrix(<<0, 0, 0>>)
    IN
    IF frameId = "Lab"
    THEN [MCRF |-> [Lambda |-> Rest, X_origin |-> <<0, 0, 0, 0>>, tau |-> 0],
          playheadTime |-> t]
    ELSE IF \A i \in 1..Len(ps) : ps[i].id # frameId
    THEN [MCRF |-> [Lambda |-> Rest, X_origin |-> <<0, 0, 0, 0>>, tau |-> 0],
          playheadTime |-> t]
    ELSE
    LET frameParticle == ps[CHOOSE i \in 1..Len(ps) :
                               /\ ps[i].id = frameId
                               /\ \A j \in 1..(i - 1) : ps[j].id # frameId]
        isInertial == ~\E i \in 1..4 : IncludesTau(frameParticle.velocityExpr[i])
    IN
    IF isInertial
    THEN LET U == evaluateVectorAtTau(frameParticle.velocityExpr, 0)
             v3 == <<FDiv(U[2], U[1]), FDiv(U[3], U[1]), FDiv(U[4], U[1])>>
             v2 == FAdd(FAdd(FMul(v3[1], v3[1]), FMul(v3[2], v3[2])), FMul(v3[3], v3[3]))
             ptau == findTauForLabTime(frameParticle.positionExpr, t)
         IN  IF FLt(FAbs(U[1]), Eps5)
             THEN [MCRF |-> [Lambda |-> Rest, X_origin |-> <<0, 0, 0, 0>>, tau |-> 0],
                   playheadTime |-> t]
             ELSE IF FGe(v2, NearLight)
             THEN [MCRF |-> [Lambda |-> Rest, X_origin |-> <<0, 0, 0, 0>>, tau |-> 0],
                   playheadTime |-> t]
             ELSE [MCRF |-> [Lambda |-> getLorentzBoostMatrix(v3),
                             X_origin |-> <<0, 0, 0, 0>>, tau |-> 0],
                   playheadTime |-> ptau]
    ELSE LET tau == findTauForLabTime(frameParticle.positionExpr, t)
             X_origin == evaluateVectorAtTau(frameParticle.positionExpr, tau)
             U == evaluateVectorAtTau(frameParticle.velocityExpr, tau)
             v3 == <<FDiv(U[2], U[1]), FDiv(U[3], U[1]), FDiv(U[4], U[1])>>
             v2 == FAdd(FAdd(FMul(v3[1], v3[1]), FMul(v3[2], v3[2])), FMul(v3[3], v3[3]))
         IN  IF FLt(FAbs(U[1]), Eps5)
             THEN [MCRF |-> [Lambda |-> Rest, X_origin |-> X_origin, tau |-> tau],
                   playheadTime |-> tau]
             ELSE IF FGe(v2, NearLight)
             THEN [MCRF |-> [Lambda |-> Rest, X_origin |-> X_origin, tau |-> tau],
                   playheadTime |-> tau]
             ELSE [MCRF |-> [Lambda |-> getLorentzBoostMatrix(v3), X_origin |-> X_origin,
                             tau |-> tau],
                   playheadTime |-> tau]

\* C28: for the same particles, active frame and animation time the 3D view
\* derives the frame (boost, origin, offset) and the playhead that the 2D
\* view derives, in every branch.
C28_SameFrameInBothViews ==
    Frame3D(particles, activeReferenceFrameId, animationTime) =
        [MCRF |-> MCRF(particles, activeReferenceFrameId, animationTime),
         playheadTime |-> playheadTime(particles, activeReferenceFrameId, animationTime)]

\* both views draw in the frame of an accelerating particle away from time 0
C28_Witness ==
    /\ HasFrameParticle
    /\ ~Inertial(FrameParticle)
    /\ Frame3D(particles, activeReferenceFrameId, animationTime).MCRF.X_origin # ZeroVec
    /\ Frame3D(particles, activeReferenceFrameId, animationTime).playheadTime # 0
    /\ Frame3D(particles, activeReferenceFrameId, animationTime).MCRF.Lambda # Identity4

(***************************************************************************)
(* THE REFERENCE PARTICLE IN ITS OWN FRAME (SpecFrame).                    *)
(***************************************************************************)
\* the marker event of the reference particle, drawn in its own frame
OwnEvent == MarkerEvent(FrameParticle, ActiveMCRF, animationTime)

\* the frame of the reference particle is a boost built from its velocity
OwnBoost ==
    /\ HasFrameParticle
    /\ ~FallsBack(evaluateVectorAtTau(FrameParticle.velocityExpr, ActiveMCRF.tau))

\* C22 as stated: in the frame of a particle, the fallback not taken, the
\* particle's own current event has spatial coordinates (0, 0, 0) and time
\* coordinate playheadTime, whether its velocity depends on tau or not.
C22_AsStated ==
    (OwnBoost /\ ~OwnEvent.nan) =>
        /\ OwnEvent.tr.t[1] = ActivePlayhead
        /\ OwnEvent.tr.x[1] = 0
        /\ OwnEvent.tr.y[1] = 0
        /\ OwnEvent.tr.z[1] = 0

====
